---- MODULE Spec2Model ----
(***************************************************************************)
(* Model of gppylib/operations/filespace.py: relocation of the directories *)
(* of the transaction files of a Greenplum cluster from one filespace to   *)
(* another (MoveFilespace), the per-segment engine that does it            *)
(* (MoveTransFilespaceLocally), the rollback (RollBackFilespaceChanges)    *)
(* and the consistency check of the flat files (CheckFilespaceConsistency).*)
(*                                                                         *)
(* Python tuples are 0-based, TLA+ tuples 1-based: a filespace entry       *)
(* (oid, dbid, directory) is <<oid, dbid, directory>>, so entry[0],        *)
(* entry[1], entry[2] of the code are e[1], e[2], e[3] here.               *)
(***************************************************************************)
EXTENDS Integers, Sequences, FiniteSets, TLC

\* Number of files a populated transaction directory holds at the start.
MaxFiles == 1

PG_SYSTEM_FILESPACE == "pg_system"

\* MoveTransFilespaceLocally.TRANSACTION_FILES_DIRS, in the order of the code.
TRANSACTION_FILES_DIRS ==
    <<"pg_xlog", "pg_multixact", "pg_subtrans", "pg_clog",
      "pg_distributedlog", "pg_distributedxidmap">>

DirNames == {TRANSACTION_FILES_DIRS[i] : i \in 1..Len(TRANSACTION_FILES_DIRS)}

\* The directories that may hold files at the start of a run; the other
\* transaction directories start absent everywhere.
PopulatedDirs == {"pg_xlog", "pg_clog"}

(***************************************************************************)
(* The topology the catalog reports (GpArray): a master without standby    *)
(* and one primary/mirror pair, and three filespaces.                      *)
(***************************************************************************)
\* gparray.getDbList(): the segments in catalog order, master first.
DbList ==
    << [dbid |-> 1, content |-> -1, role |-> "p", host |-> "mdw"],
       [dbid |-> 2, content |-> 0,  role |-> "p", host |-> "sdw1"],
       [dbid |-> 3, content |-> 0,  role |-> "m", host |-> "sdw2"] >>

DbIds == {DbList[i].dbid : i \in 1..Len(DbList)}
Segs == {DbList[i] : i \in 1..Len(DbList)}

\* gparray.getFilespaces(includeSystemFilespace=True): name and oid.
Filespaces ==
    << [name |-> "pg_system", oid |-> 3052],
       [name |-> "fast_ssd",  oid |-> 16385],
       [name |-> "slow_hdd",  oid |-> 16386] >>

FilespaceNames == {Filespaces[i].name : i \in 1..Len(Filespaces)}
FilespaceOids == {Filespaces[i].oid : i \in 1..Len(Filespaces)}

\* gparray.getFileSpaceName(oid); "" stands for the exception of an unknown oid.
getFileSpaceName(oid) ==
    IF \E i \in 1..Len(Filespaces) : Filespaces[i].oid = oid
    THEN (CHOOSE f \in {Filespaces[i] : i \in 1..Len(Filespaces)} : f.oid = oid).name
    ELSE ""

\* The directory of every filespace on every segment (pg_filespace_entry),
\* by filespace name and dbid.
FilespaceDirs ==
    [pg_system |-> <<"/data/master", "/data/seg1", "/data/seg1m">>,
     fast_ssd  |-> <<"/ssd/master", "/ssd/seg1", "/ssd/seg1m">>,
     slow_hdd  |-> <<"/hdd/master", "/hdd/seg1", "/hdd/seg1m">>]

\* seg.getSegmentFilespaces()[oid]: the directory of a filespace on a segment.
SegmentFilespaces(dbid, oid) == FilespaceDirs[getFileSpaceName(oid)][dbid]

Paths == {SegmentFilespaces(d, o) : d \in DbIds, o \in FilespaceOids}

(***************************************************************************)
(* Values on disk.                                                         *)
(***************************************************************************)
\* A file is <<name, data>>; data is a sequence of bytes.
FileNames == 1..MaxFiles

\* An owned subdirectory: absent, or the set of its files.
Absent == [exists |-> FALSE, files |-> {}]
Present(files) == [exists |-> TRUE, files |-> files]

\* A filespace directory of a segment: absent, or its owned subdirectories.
NoDir == [exists |-> FALSE, sub |-> [d \in DirNames |-> Absent]]
EmptyDir == [exists |-> TRUE, sub |-> [d \in DirNames |-> Absent]]

\* The files a populated directory of filespace `name` holds at the start.
InitialFiles(name) == {<<f, <<name>>>> : f \in FileNames}

\* A flat file is a sequence of lines, a line the sequence of its
\* whitespace-separated tokens (what line.split() returns); NoFile is the
\* missing file.
NoFile == <<"<missing>">>

\* str(n) of the code, and int(s) restricted to the integers a flat file holds.
Str(n) == ToString(n)
IsInt(s) == \E n \in FilespaceOids \cup DbIds \cup {-1} : Str(n) = s
ParseInt(s) == CHOOSE n \in FilespaceOids \cup DbIds \cup {-1} : Str(n) = s

(***************************************************************************)
(* Topology and directory resolver.                                        *)
(***************************************************************************)
\* No entry: Python's None.
None == <<>>

\* GetFilespaceEntries raises 'Invalid filespace name.' unless a filespace
\* of the catalog has the name.
IsFilespaceName(filespace_name) ==
    \E i \in 1..Len(Filespaces) : Filespaces[i].name = filespace_name

\* GetFilespaceEntries without the break-less match of lines 801-803: the
\* oid is that of the first filespace of the catalog.
GetFilespaceEntries_FirstOid(filespace_name) ==
    LET filespace_oid == Filespaces[1].oid
    IN  [i \in 1..Len(DbList) |->
            <<filespace_oid, DbList[i].dbid,
              SegmentFilespaces(DbList[i].dbid, filespace_oid)>>]

\* GetFilespaceEntries.execute: one (oid, dbid, directory) per segment of
\* getDbList, in its order. The loop over the filespaces keeps the oid of
\* the last filespace with the name.
GetFilespaceEntries(filespace_name) ==
    LET matches == {i \in 1..Len(Filespaces) : Filespaces[i].name = filespace_name}
        filespace_oid == Filespaces[CHOOSE i \in matches : \A j \in matches : j <= i].oid
    IN  [i \in 1..Len(DbList) |->
            <<filespace_oid, DbList[i].dbid,
              SegmentFilespaces(DbList[i].dbid, filespace_oid)>>]

\* GetFilespaceEntriesDict.execute: the entries by dbid (the last entry of a
\* dbid wins).
GetFilespaceEntriesDict(filespace_entries) ==
    LET n == Len(filespace_entries)
        last(dbid) == CHOOSE i \in 1..n :
                        /\ filespace_entries[i][2] = dbid
                        /\ \A j \in 1..n : filespace_entries[j][2] = dbid => j <= i
    IN  [dbid \in {filespace_entries[i][2] : i \in 1..n} |-> filespace_entries[last(dbid)]]

\* The segment whose pg_system directory is `path`: its flat file is the one
\* stored in that directory.
FlatFileOwner(path) ==
    CHOOSE dbid \in DbIds : FilespaceDirs[PG_SYSTEM_FILESPACE][dbid] = path

\* CheckFile(path).run() on a flat file.
CheckFile(ff, path) == ff[FlatFileOwner(path)] # NoFile

\* file.readline().strip() on a flat file: its first line, "" when the file
\* is empty. A first line of several tokens is no integer.
ReadOid(file) ==
    IF Len(file) >= 1 /\ Len(file[1]) = 1 THEN file[1][1] ELSE ""

\* GetCurrentFilespaceEntries.execute raises (ValueError of int(), the
\* exception of getFileSpaceName) unless this holds.
CurrentEntriesResolve(ff) ==
    LET flat_files_dir == GetFilespaceEntries(PG_SYSTEM_FILESPACE)[1][3]
        fs_oid == ReadOid(ff[FlatFileOwner(flat_files_dir)])
    IN  CheckFile(ff, flat_files_dir) =>
            /\ IsInt(fs_oid)
            /\ getFileSpaceName(ParseInt(fs_oid)) # ""

\* GetCurrentFilespaceEntries that returns the pg_system entries whatever
\* the flat file holds.
GetCurrentFilespaceEntries_Default(ff) == GetFilespaceEntries(PG_SYSTEM_FILESPACE)

\* GetCurrentFilespaceEntries.execute: the entries of the filespace named by
\* the flat file in the directory of the first pg_system entry, or the
\* pg_system entries when that flat file is missing.
GetCurrentFilespaceEntries(ff) ==
    LET default_filespace_entries == GetFilespaceEntries(PG_SYSTEM_FILESPACE)
        flat_files_dir == default_filespace_entries[1][3]
        fs_oid == ReadOid(ff[FlatFileOwner(flat_files_dir)])
    IN  IF CheckFile(ff, flat_files_dir)
        THEN GetFilespaceEntries(getFileSpaceName(ParseInt(fs_oid)))
        ELSE default_filespace_entries

\* get_peer_filespace_entry without the test of the content id (line 385):
\* the entry of the first segment with another dbid.
get_peer_filespace_entry_AnyOther(filespace_entries, dbid, content_id, segments) ==
    LET hits == {i \in 1..Len(segments) : segments[i].dbid # dbid}
    IN  IF hits = {} THEN None
        ELSE filespace_entries[segments[CHOOSE i \in hits : \A j \in hits : i <= j].dbid]

\* get_peer_filespace_entry: the entry of the first segment of `segments`
\* with the content id and another dbid; None when the loop ends.
get_peer_filespace_entry(filespace_entries, dbid, content_id, segments) ==
    LET hits == {i \in 1..Len(segments) :
                    segments[i].content = content_id /\ segments[i].dbid # dbid}
    IN  IF hits = {} THEN None
        ELSE filespace_entries[segments[CHOOSE i \in hits : \A j \in hits : i <= j].dbid]

\* CheckFilespaceIsSame without the test of line 80: a target pg_system with
\* no flat file on the control node is not recognised as the filespace in
\* effect.
CheckFilespaceIsSame_FlatFileOnly(ff, filespace_name) ==
    LET file_dir == GetFilespaceEntries(PG_SYSTEM_FILESPACE)[1][3]
        oid == ReadOid(ff[FlatFileOwner(file_dir)])
    IN  /\ CheckFile(ff, file_dir)
        /\ getFileSpaceName(ParseInt(oid)) = filespace_name

\* CheckFilespaceIsSame.execute, given that it does not raise: True when the
\* target is pg_system and the flat file of the first pg_system entry is
\* missing, or when that flat file names the target.
CheckFilespaceIsSame(ff, filespace_name) ==
    LET file_dir == GetFilespaceEntries(PG_SYSTEM_FILESPACE)[1][3]
        oid == ReadOid(ff[FlatFileOwner(file_dir)])
    IN  \/ filespace_name = "pg_system" /\ ~CheckFile(ff, file_dir)
        \/ /\ CheckFile(ff, file_dir)
           /\ getFileSpaceName(ParseInt(oid)) = filespace_name

\* CheckFilespaceIsSame.execute raises 'Failed to check if filespace is
\* same.' when the oid of the flat file is no integer or no known oid.
CheckFilespaceIsSameRaises(ff) == ~CurrentEntriesResolve(ff)

(***************************************************************************)
(* The local relocation engine, MoveTransFilespaceLocally.                 *)
(***************************************************************************)
\* What can go wrong in one invocation: the permission probe is refused,
\* the target mount has no free block, copytree raises after copying the
\* files `keep` of directory `dir`, copytree returns but copied only `keep`,
\* rmtree raises leaving the files `keep`, or the flat file reads back
\* different from what was written.
NoFault == [kind |-> "none", dir |-> "", keep |-> {}]

Faults ==
    {NoFault}
    \cup {[kind |-> k, dir |-> "", keep |-> {}] : k \in {"perm", "space", "verify"}}
    \cup {[kind |-> k, dir |-> d, keep |-> s] :
            k \in {"copy", "corrupt", "drop"}, d \in PopulatedDirs, s \in SUBSET FileNames}

\* CheckDir(path).run() on a filespace directory and on an owned subdirectory.
CheckDir(dk, path) == dk[path].exists
CheckSubDir(dk, path, directory) == dk[path].exists /\ dk[path].sub[directory].exists

\* get_sha256: the digest of the concatenation of the contents of the files
\* of the tree, in the order of their sorted paths. A missing directory
\* walks as an empty one.
RECURSIVE Concatenated(_, _)
Concatenated(files, n) ==
    IF n = 0 THEN <<>>
    ELSE Concatenated(files, n - 1) \o
         (IF \E f \in files : f[1] = n
          THEN (CHOOSE f \in files : f[1] = n)[2] ELSE <<>>)

get_sha256(dk, path, directory) ==
    Concatenated(IF CheckSubDir(dk, path, directory)
                 THEN dk[path].sub[directory].files ELSE {}, MaxFiles)

\* shutil.rmtree of an owned subdirectory.
rmtree(dk, path, directory) ==
    [dk EXCEPT ![path].sub[directory] = Absent]

\* shutil.copytree(src_dir, dst_dir) that creates dst_dir, and its parents,
\* with the files `files`.
copytree(dk, dst, directory, files) ==
    [dk EXCEPT ![dst] = [exists |-> TRUE,
                         sub |-> [@.sub EXCEPT ![directory] = Present(files)]]]

\* One pass of the copy loop that treats a rollback like a forward move: an
\* existing destination is removed and copied over.
CopyDir_AlwaysReplace(dk, directory, src, dst, rollback, fault) ==
    LET srcEx == CheckSubDir(dk, src, directory)
        dstEx == CheckSubDir(dk, dst, directory)
        dk1 == IF srcEx /\ dstEx THEN rmtree(dk, dst, directory) ELSE dk
        hit == fault.dir = directory /\ fault.kind \in {"copy", "corrupt"}
        all == dk1[src].sub[directory].files
        copied == IF hit THEN {f \in all : f[1] \in fault.keep} ELSE all
        dk2 == copytree(dk1, dst, directory, copied)
    IN  IF ~srcEx THEN [disk |-> dk, ok |-> TRUE]
        ELSE IF hit /\ fault.kind = "copy"
             THEN [disk |-> dk2, ok |-> FALSE]
        ELSE [disk |-> dk2,
              ok |-> get_sha256(dk2, src, directory) = get_sha256(dk2, dst, directory)]

\* One pass of the copy loop that moves: a directory that was copied and
\* compared is removed from the source at once, not in the drop loop.
CopyDir_Move(dk, directory, src, dst, rollback, fault) ==
    LET srcEx == CheckSubDir(dk, src, directory)
        dstEx == CheckSubDir(dk, dst, directory)
        copies == IF rollback THEN srcEx /\ ~dstEx ELSE srcEx
        dk1 == IF ~rollback /\ srcEx /\ dstEx THEN rmtree(dk, dst, directory) ELSE dk
        hit == fault.dir = directory /\ fault.kind \in {"copy", "corrupt"}
        all == dk1[src].sub[directory].files
        copied == IF hit THEN {f \in all : f[1] \in fault.keep} ELSE all
        dk2 == copytree(dk1, dst, directory, copied)
        same == get_sha256(dk2, src, directory) = get_sha256(dk2, dst, directory)
    IN  IF ~copies THEN [disk |-> dk, ok |-> TRUE]
        ELSE IF ~CheckSubDir(dk1, src, directory)
             THEN [disk |-> dk1, ok |-> FALSE]
        ELSE IF hit /\ fault.kind = "copy"
             THEN [disk |-> dk2, ok |-> FALSE]
        ELSE [disk |-> IF same THEN rmtree(dk2, src, directory) ELSE dk2, ok |-> same]

\* One pass of the copy loop (lines 603-635); ok is FALSE when it raises.
CopyDir(dk, directory, src, dst, rollback, fault) ==
    LET srcEx == CheckSubDir(dk, src, directory)
        dstEx == CheckSubDir(dk, dst, directory)
        copies == IF rollback THEN srcEx /\ ~dstEx ELSE srcEx
        dk1 == IF ~rollback /\ srcEx /\ dstEx THEN rmtree(dk, dst, directory) ELSE dk
        hit == fault.dir = directory /\ fault.kind \in {"copy", "corrupt"}
        all == dk1[src].sub[directory].files
        copied == IF hit THEN {f \in all : f[1] \in fault.keep} ELSE all
        dk2 == copytree(dk1, dst, directory, copied)
    IN  IF ~copies THEN [disk |-> dk, ok |-> TRUE]
        ELSE IF ~CheckSubDir(dk1, src, directory)
             THEN [disk |-> dk1, ok |-> FALSE]
        ELSE IF hit /\ fault.kind = "copy"
             THEN [disk |-> dk2, ok |-> FALSE]
        ELSE [disk |-> dk2,
              ok |-> get_sha256(dk2, src, directory) = get_sha256(dk2, dst, directory)]

RECURSIVE CopyLoop(_, _, _, _, _, _)
CopyLoop(dk, i, src, dst, rollback, fault) ==
    IF i > Len(TRANSACTION_FILES_DIRS) THEN [disk |-> dk, ok |-> TRUE]
    ELSE LET r == CopyDir(dk, TRANSACTION_FILES_DIRS[i], src, dst, rollback, fault)
         IN  IF r.ok THEN CopyLoop(r.disk, i + 1, src, dst, rollback, fault) ELSE r

\* One pass of the drop loop (lines 638-646).
DropDir(dk, directory, src, fault) ==
    IF ~CheckSubDir(dk, src, directory) THEN [disk |-> dk, ok |-> TRUE]
    ELSE IF fault.kind = "drop" /\ fault.dir = directory
         THEN [disk |-> [dk EXCEPT ![src].sub[directory].files =
                                        {f \in @ : f[1] \in fault.keep}],
               ok |-> FALSE]
    ELSE [disk |-> rmtree(dk, src, directory), ok |-> TRUE]

RECURSIVE DropLoop(_, _, _, _)
DropLoop(dk, i, src, fault) ==
    IF i > Len(TRANSACTION_FILES_DIRS) THEN [disk |-> dk, ok |-> TRUE]
    ELSE LET r == DropDir(dk, TRANSACTION_FILES_DIRS[i], src, fault)
         IN  IF r.ok THEN DropLoop(r.disk, i + 1, src, fault) ELSE r

\* lines_to_write of the engine (lines 661-665) and of UpdateFlatFilesLocally.
lines_to_write(oid, own_entry, peer_entry) ==
    << <<Str(oid)>>, <<Str(own_entry[2]), own_entry[3]>> >>
    \o (IF peer_entry # None THEN << <<Str(peer_entry[2]), peer_entry[3]>> >> ELSE <<>>)

\* The flat-file step (lines 648-677): delete the flat file when the target
\* is pg_system, else write the temporary file, read it back and move it
\* over the flat file.
WriteFlatFile(ff, new_filespace_name, new_filespace_entry, peer_filespace_entry, pg_system_filespace_entry, fault) ==
    LET owner == FlatFileOwner(pg_system_filespace_entry[3])
    IN  IF new_filespace_name = PG_SYSTEM_FILESPACE
        THEN [file |-> [ff EXCEPT ![owner] = NoFile], ok |-> TRUE]
        ELSE IF fault.kind = "verify"
             THEN [file |-> ff, ok |-> FALSE]
        ELSE [file |-> [ff EXCEPT ![owner] =
                            lines_to_write(new_filespace_entry[1], new_filespace_entry,
                                           peer_filespace_entry)],
              ok |-> TRUE]

\* The engine with the drop loop run although the copy loop raised.
MoveTransFilespaceLocally_DropAnyway(dk, ff, current_filespace_entry, new_filespace_name, new_filespace_entry, peer_filespace_entry, pg_system_filespace_entry, rollback, fault) ==
    LET src == current_filespace_entry[3]
        dst == new_filespace_entry[3]
        copied == CopyLoop(dk, 1, src, dst, rollback, fault)
        dropped == DropLoop(copied.disk, 1, src, fault)
        written == WriteFlatFile(ff, new_filespace_name, new_filespace_entry,
                                 peer_filespace_entry, pg_system_filespace_entry, fault)
    IN  IF ~CheckDir(dk, src) THEN [disk |-> dk, file |-> ff, ok |-> TRUE]
        ELSE IF fault.kind \in {"perm", "space"}
             THEN [disk |-> dk, file |-> ff, ok |-> FALSE]
        ELSE IF ~copied.ok THEN [disk |-> dropped.disk, file |-> ff, ok |-> FALSE]
        ELSE IF ~dropped.ok THEN [disk |-> dropped.disk, file |-> ff, ok |-> FALSE]
        ELSE [disk |-> dropped.disk, file |-> written.file, ok |-> written.ok]

\* The engine without the test of lines 589-590: it goes on when its
\* current directory does not exist.
MoveTransFilespaceLocally_NoEarlyReturn(dk, ff, current_filespace_entry, new_filespace_name, new_filespace_entry, peer_filespace_entry, pg_system_filespace_entry, rollback, fault) ==
    LET src == current_filespace_entry[3]
        dst == new_filespace_entry[3]
        copied == CopyLoop(dk, 1, src, dst, rollback, fault)
        dropped == DropLoop(copied.disk, 1, src, fault)
        written == WriteFlatFile(ff, new_filespace_name, new_filespace_entry,
                                 peer_filespace_entry, pg_system_filespace_entry, fault)
    IN  IF fault.kind \in {"perm", "space"}
        THEN [disk |-> dk, file |-> ff, ok |-> FALSE]
        ELSE IF ~copied.ok THEN [disk |-> copied.disk, file |-> ff, ok |-> FALSE]
        ELSE IF ~dropped.ok THEN [disk |-> dropped.disk, file |-> ff, ok |-> FALSE]
        ELSE [disk |-> dropped.disk, file |-> written.file, ok |-> written.ok]

\* The engine with the permission probe and the free-space test moved
\* behind the copy loop.
MoveTransFilespaceLocally_ProbeAfterCopy(dk, ff, current_filespace_entry, new_filespace_name, new_filespace_entry, peer_filespace_entry, pg_system_filespace_entry, rollback, fault) ==
    LET src == current_filespace_entry[3]
        dst == new_filespace_entry[3]
        copied == CopyLoop(dk, 1, src, dst, rollback, fault)
        dropped == DropLoop(copied.disk, 1, src, fault)
        written == WriteFlatFile(ff, new_filespace_name, new_filespace_entry,
                                 peer_filespace_entry, pg_system_filespace_entry, fault)
    IN  IF ~CheckDir(dk, src) THEN [disk |-> dk, file |-> ff, ok |-> TRUE]
        ELSE IF ~copied.ok THEN [disk |-> copied.disk, file |-> ff, ok |-> FALSE]
        ELSE IF fault.kind \in {"perm", "space"}
             THEN [disk |-> copied.disk, file |-> ff, ok |-> FALSE]
        ELSE IF ~dropped.ok THEN [disk |-> dropped.disk, file |-> ff, ok |-> FALSE]
        ELSE [disk |-> dropped.disk, file |-> written.file, ok |-> written.ok]

\* MoveTransFilespaceLocally.execute: the disk and the flat files after the
\* invocation; ok is FALSE when it raises.
MoveTransFilespaceLocally(dk, ff, current_filespace_entry, new_filespace_name, new_filespace_entry, peer_filespace_entry, pg_system_filespace_entry, rollback, fault) ==
    LET src == current_filespace_entry[3]
        dst == new_filespace_entry[3]
        copied == CopyLoop(dk, 1, src, dst, rollback, fault)
        dropped == DropLoop(copied.disk, 1, src, fault)
        written == WriteFlatFile(ff, new_filespace_name, new_filespace_entry,
                                 peer_filespace_entry, pg_system_filespace_entry, fault)
    IN  IF ~CheckDir(dk, src) THEN [disk |-> dk, file |-> ff, ok |-> TRUE]
        ELSE IF fault.kind \in {"perm", "space"}
             THEN [disk |-> dk, file |-> ff, ok |-> FALSE]
        ELSE IF ~copied.ok THEN [disk |-> copied.disk, file |-> ff, ok |-> FALSE]
        ELSE IF ~dropped.ok THEN [disk |-> dropped.disk, file |-> ff, ok |-> FALSE]
        ELSE [disk |-> dropped.disk, file |-> written.file, ok |-> written.ok]


(***************************************************************************)
(* The consistency checker.                                                *)
(***************************************************************************)
\* CheckFilespaceOidLocally.execute: -1 when the flat file is missing, else
\* its first line, as a string.
CheckFilespaceOidLocally(ff, flat_file_location) ==
    IF ~CheckFile(ff, flat_file_location) THEN Str(-1)
    ELSE ReadOid(ff[FlatFileOwner(flat_file_location)])

\* CheckFilespaceEntriesLocally with line 241 testing that the required
\* entries are among those of the flat file: further entries are tolerated.
CheckFilespaceEntriesLocally_Subset(dk, ff, cur_filespace_entry, peer_filespace_entry, filespace_location) ==
    LET file == ff[FlatFileOwner(filespace_location)]
        entries_set == {file[i] : i \in {j \in 1..Len(file) : Len(file[j]) = 2}}
        required_set ==
            {<<Str(cur_filespace_entry[2]), cur_filespace_entry[3]>>}
            \cup (IF peer_filespace_entry # None
                  THEN {<<Str(peer_filespace_entry[2]), peer_filespace_entry[3]>>}
                  ELSE {})
    IN  \/ ~CheckFile(ff, filespace_location)
        \/ /\ CheckDir(dk, cur_filespace_entry[3])
           /\ required_set \subseteq entries_set

\* CheckFilespaceEntriesLocally.execute: True when the flat file is missing;
\* else the directory of the segment must exist and the lines of two tokens
\* of the flat file must be the entry of the segment and that of its peer.
CheckFilespaceEntriesLocally(dk, ff, cur_filespace_entry, peer_filespace_entry, filespace_location) ==
    LET file == ff[FlatFileOwner(filespace_location)]
        entries_set == {file[i] : i \in {j \in 1..Len(file) : Len(file[j]) = 2}}
        required_set ==
            {<<Str(cur_filespace_entry[2]), cur_filespace_entry[3]>>}
            \cup (IF peer_filespace_entry # None
                  THEN {<<Str(peer_filespace_entry[2]), peer_filespace_entry[3]>>}
                  ELSE {})
    IN  \/ ~CheckFile(ff, filespace_location)
        \/ /\ CheckDir(dk, cur_filespace_entry[3])
           /\ required_set = entries_set

\* CheckFilespaceConsistency.execute: "True", "False", or "raised" when
\* GetCurrentFilespaceEntries raises.
CheckFilespaceConsistency(dk, ff) ==
    LET pg_system_fs_entries ==
            GetFilespaceEntriesDict(GetFilespaceEntries(PG_SYSTEM_FILESPACE))
        cur_entries == GetFilespaceEntriesDict(GetCurrentFilespaceEntries(ff))
        rets == [i \in 1..Len(DbList) |->
                    CheckFilespaceOidLocally(ff, pg_system_fs_entries[DbList[i].dbid][3])]
        oid_set == {ParseInt(rets[i]) : i \in 1..Len(DbList)}
        oid == CHOOSE o \in oid_set : TRUE
        entries_ok(seg) ==
            CheckFilespaceEntriesLocally(dk, ff, cur_entries[seg.dbid],
                get_peer_filespace_entry(cur_entries, seg.dbid, seg.content, DbList),
                pg_system_fs_entries[seg.dbid][3])
    IN  IF ~CurrentEntriesResolve(ff) THEN "raised"
        ELSE IF \E i \in 1..Len(DbList) : ~IsInt(rets[i]) THEN "False"
        ELSE IF Cardinality(oid_set) # 1 THEN "False"
        ELSE IF oid # -1 /\ getFileSpaceName(oid) = "" THEN "False"
        ELSE IF \A i \in 1..Len(DbList) : entries_ok(DbList[i]) THEN "True"
        ELSE "False"

\* Bound on the number of engine invocations of one batch that hit a fault.
MaxFaults == 1
\* The largest value of option -o and the number of status queries to one
\* segment that are counted.
MaxOccurrence == 2
MaxPolls == 2

VARIABLES
    disk,                  \* [Paths -> directory]: the filespace directories of all segments
    flatFile,              \* [DbIds -> flat file]: gp_transaction_files_filespace in each
                           \*   segment's pg_system directory
    clusterMode,           \* "normal", "utility" (master only) or "stopped"
    sigint,                \* "default" or "ignored": the handler of SIGINT
    pc,                    \* position of MoveFilespace.execute
    new_filespace_name,    \* MoveFilespace.new_filespace_name
    is_super,              \* what CheckSuperUser finds for MoveFilespace.user
    cur_filespace_entries, \* the local of execute set at line 1086, None before
    fwd,                   \* [DbIds -> "none"|"pending"|"ok"|"failed"]: the forward operations
    rbk,                   \* [DbIds -> "none"|"pending"|"ok"|"failed"]: the rollback operations
    error,                 \* the exception execute raises, "" when none
    failed_check,          \* the first check of execute that failed, "" when none (history)
    faults,                \* number of engine invocations of the batch that hit a fault
    disk0,                 \* disk at the start of the run (history)
    flatFile0,             \* flatFile at the start of the run (history)
    mode0,                 \* clusterMode at the start of the run (history)
    lifecycle,             \* the lifecycle commands issued so far, in order (history)
    tmpFile,               \* [DbIds -> flat file]: gp_transaction_files_filespace.tmp in
                           \*   each segment's pg_system directory, followed statement
                           \*   by statement in FlatFileSpec
    ret,                   \* the operation run on its own in QuerySpec or UpdateSpec:
                           \*   its name, its arguments, whether it raised and
                           \*   Operation.ret
    tempFlatFile,          \* [DbIds -> flat file]: gp_temporary_files_filespace in each
                           \*   segment's pg_system directory
    tempDirs,              \* [Paths -> directory]: the pgsql_tmp directories under the
                           \*   filespace directories of all segments
    inject                 \* GpInjectFaultProgram: its options, the message it built,
                           \*   the locals of run, injectFaults and waitForFaults, and
                           \*   what the segment servers were sent and answered

\* The temporary files under a filespace directory: whether <dir>/pgsql_tmp
\* exists, whether <dir>/base exists, the per-database directories under
\* it, and those of them that hold a pgsql_tmp directory.
NoTempDir == [root |-> FALSE, base |-> FALSE, dbs |-> {}, tmp |-> {}]

\* GpInjectFaultProgram before its constructor has run, with no option given.
NoInject ==
    [o |-> 1, numOccurrences |-> 1, endOccurrence |-> 0, type |-> "", syncMode |-> "",
     messageText |-> <<>>, targets |-> <<>>, segments |-> <<>>,
     segmentsForNextPass |-> <<>>, i |-> 0,
     injected |-> [dbid \in DbIds |-> 0], polled |-> [dbid \in DbIds |-> 0],
     answer |-> [dbid \in DbIds |-> ""], occurred |-> {}]

\* No operation has returned yet.
NoRet == [op |-> "", args |-> <<>>, raised |-> FALSE, value |-> <<>>]

vars == <<disk, flatFile, clusterMode, sigint, pc, new_filespace_name, is_super,
          cur_filespace_entries, fwd, rbk, error, failed_check, faults, disk0,
          flatFile0, mode0, inject, lifecycle, tmpFile, ret,
          tempFlatFile, tempDirs>>

\* The flat file a segment holds when `name` is the filespace in effect:
\* none for pg_system, else what the engine writes for it.
FlatFileFor(name, dbid) ==
    LET entries == GetFilespaceEntriesDict(GetFilespaceEntries(name))
        seg == CHOOSE sg \in {DbList[i] : i \in 1..Len(DbList)} : sg.dbid = dbid
    IN  IF name = PG_SYSTEM_FILESPACE THEN NoFile
        ELSE lines_to_write(entries[dbid][1], entries[dbid],
                            get_peer_filespace_entry(entries, dbid, seg.content, DbList))

\* The directory of filespace `name` on a segment at the start: the pg_system
\* directory always exists, another one unless it is in `missing`; the
\* subdirectories in `present` hold the filespace's files.
InitialDir(name, dbid, present, missing) ==
    IF <<name, dbid>> \in missing THEN NoDir
    ELSE [exists |-> TRUE,
          sub |-> [d \in DirNames |->
                     IF d \in present THEN Present(InitialFiles(name)) ELSE Absent]]

PathFilespace(path) ==
    CHOOSE name \in FilespaceNames : \E dbid \in DbIds : FilespaceDirs[name][dbid] = path
PathDbId(path) ==
    CHOOSE dbid \in DbIds : \E name \in FilespaceNames : FilespaceDirs[name][dbid] = path

\* The start of a run. The flat files of all segments agree on the
\* filespace in effect, `cur`, whose directories hold the transaction
\* directories `src`; the directories of the other filespaces may hold a
\* stale transaction directory, and the mirror may lack its directory of
\* fast_ssd. The cluster runs, or (in one layout) is already stopped.
Init ==
    /\ is_super \in BOOLEAN
    /\ \E cur \in {"pg_system", "fast_ssd"} :
       \E src \in SUBSET PopulatedDirs, stale \in {{}, {"pg_clog"}} :
       \E missing \in SUBSET {<<"fast_ssd", 3>>} :
          /\ new_filespace_name \in
                IF cur = "pg_system" THEN {"pg_system", "fast_ssd", "no_such_fs"}
                ELSE {"pg_system", "fast_ssd", "slow_hdd"}
          /\ clusterMode \in
                IF src = PopulatedDirs /\ stale = {} /\ missing = {}
                THEN {"normal", "stopped"} ELSE {"normal"}
          /\ flatFile = [dbid \in DbIds |-> FlatFileFor(cur, dbid)]
          /\ disk = [p \in Paths |->
                       InitialDir(PathFilespace(p), PathDbId(p),
                                  IF PathFilespace(p) = cur THEN src ELSE stale,
                                  missing)]
    /\ sigint = "default"
    /\ pc = "start"
    /\ cur_filespace_entries = None
    /\ fwd = [dbid \in DbIds |-> "none"]
    /\ rbk = [dbid \in DbIds |-> "none"]
    /\ error = ""
    /\ failed_check = ""
    /\ faults = 0
    /\ disk0 = disk
    /\ flatFile0 = flatFile
    /\ mode0 = clusterMode
    /\ inject = NoInject
    /\ lifecycle = <<>>
    /\ tmpFile = [dbid \in DbIds |-> NoFile]
    /\ ret = NoRet
    /\ tempFlatFile = [dbid \in DbIds |-> NoFile]
    /\ tempDirs = [p \in Paths |-> NoTempDir]

(***************************************************************************)
(* MoveFilespace.execute, step by step.                                    *)
(***************************************************************************)
\* An exception leaves the try block: the finally clause runs next.
Raise(e) == /\ error' = e
            /\ pc' = "finally"

\* Line 1040: signal.signal(SIGINT, SIG_IGN).
DisableSigint ==
    /\ pc = "start"
    /\ sigint' = "ignored"
    /\ pc' = "check_stopped"
    /\ UNCHANGED <<disk, flatFile, clusterMode, new_filespace_name, is_super,
                   cur_filespace_entries, fwd, rbk, error, faults, failed_check, disk0, flatFile0,
                   mode0, inject, tmpFile, ret, tempFlatFile, tempDirs, lifecycle>>

\* Lines 1043-1044: stop_database unless check_database_stopped; a GpStop
\* that fails (rc != 0) leaves the cluster as it was and validate() raises.
StopDatabase ==
    /\ pc = "check_stopped"
    /\ IF clusterMode = "stopped"
       THEN /\ pc' = "start_master"
            /\ UNCHANGED <<clusterMode, error, lifecycle>>
       ELSE /\ lifecycle' = Append(lifecycle, "stop_database")
            /\ \E ok \in BOOLEAN :
                  IF ok THEN /\ clusterMode' = "stopped"
                             /\ pc' = "start_master"
                             /\ UNCHANGED error
                  ELSE /\ Raise("GpStopFailed")
                       /\ UNCHANGED clusterMode
    /\ UNCHANGED <<disk, flatFile, sigint, new_filespace_name, is_super,
                   cur_filespace_entries, fwd, rbk, faults, failed_check, disk0, flatFile0, mode0, inject, tmpFile, ret, tempFlatFile, tempDirs>>

\* Line 1047: start_master_only.
StartMasterOnly ==
    /\ pc = "start_master"
    /\ lifecycle' = Append(lifecycle, "start_master_only")
    /\ \E ok \in BOOLEAN :
          IF ok THEN /\ clusterMode' = "utility"
                     /\ pc' = "validate"
                     /\ UNCHANGED error
          ELSE /\ Raise("GpStartMasterOnlyFailed")
               /\ UNCHANGED clusterMode
    /\ UNCHANGED <<disk, flatFile, sigint, new_filespace_name, is_super,
                   cur_filespace_entries, fwd, rbk, faults, failed_check, disk0, flatFile0, mode0, inject, tmpFile, ret, tempFlatFile, tempDirs>>

\* The exception of the checks of lines 1051-1062, "" when all pass.
ValidationError ==
    IF ~is_super THEN "NotSuperuser"
    ELSE IF ~IsFilespaceName(new_filespace_name) THEN "NoSuchFilespace"
    ELSE IF CheckFilespaceIsSameRaises(flatFile) THEN "CheckSameFailed"
    ELSE IF CheckFilespaceIsSame(flatFile, new_filespace_name) THEN "SameFilespace"
    ELSE ""

ValidationErrors == {"NotSuperuser", "NoSuchFilespace", "CheckSameFailed", "SameFilespace"}

\* Lines 1049-1062: CheckSuperUser, CheckFilespace, CheckFilespaceIsSame.
Validate ==
    /\ pc = "validate"
    /\ IF ValidationError = ""
       THEN /\ pc' = "check_mode"
            /\ UNCHANGED error
       ELSE /\ error' = ValidationError
            /\ pc' = "cleanup"
    /\ failed_check' = ValidationError
    /\ UNCHANGED <<disk, flatFile, clusterMode, sigint, new_filespace_name, is_super,
                   cur_filespace_entries, fwd, rbk, faults, disk0, flatFile0, mode0, inject, tmpFile, ret, tempFlatFile, tempDirs,
                   lifecycle>>

\* The handler of a failed check without line 1067: it stops the master-only
\* instance and re-raises, and never restarts the cluster.
ValidationCleanup_NoRestart ==
    /\ pc = "cleanup"
    /\ pc' = "finally"
    /\ lifecycle' = Append(lifecycle, "stop_master_only")
    /\ \E stopped \in BOOLEAN :
          IF ~stopped
          THEN /\ error' = "GpStopMasterOnlyFailed"
               /\ UNCHANGED clusterMode
          ELSE /\ clusterMode' = "stopped"
               /\ UNCHANGED error
    /\ UNCHANGED <<disk, flatFile, sigint, new_filespace_name, is_super,
                   cur_filespace_entries, fwd, rbk, faults, failed_check, disk0,
                   flatFile0, mode0, inject, tmpFile, ret, tempFlatFile, tempDirs>>

\* Lines 1063-1068, the handler of a failed check: stop_master_only,
\* start_database, re-raise. A command that fails raises its own exception
\* and the rest of the handler is skipped.
ValidationCleanup ==
    /\ pc = "cleanup"
    /\ pc' = "finally"
    /\ \E stopped \in BOOLEAN, started \in BOOLEAN :
          IF ~stopped
          THEN /\ lifecycle' = Append(lifecycle, "stop_master_only")
               /\ error' = "GpStopMasterOnlyFailed"
               /\ UNCHANGED clusterMode
          ELSE /\ lifecycle' = lifecycle \o <<"stop_master_only", "start_database">>
               /\ IF started THEN /\ clusterMode' = "normal"
                                  /\ UNCHANGED error
                  ELSE /\ clusterMode' = "stopped"
                       /\ error' = "GpStartFailed"
    /\ UNCHANGED <<disk, flatFile, sigint, new_filespace_name, is_super,
                   cur_filespace_entries, fwd, rbk, faults, failed_check, disk0, flatFile0, mode0, inject, tmpFile, ret, tempFlatFile, tempDirs>>

\* execute without lines 1071-1074: the master-only instance keeps running
\* during the relocation.
StopMasterOnly_Skipped ==
    /\ pc = "check_mode"
    /\ pc' = "connectivity"
    /\ UNCHANGED <<disk, flatFile, clusterMode, sigint, new_filespace_name, is_super,
                   cur_filespace_entries, fwd, rbk, error, faults, failed_check, disk0,
                   flatFile0, mode0, inject, tmpFile, ret, tempFlatFile, tempDirs, lifecycle>>

\* What get_local_db_mode(MASTER_DATA_DIR) may report for the instance:
\* its mode, or another one when the options file of the postmaster does not
\* say master-only.
LocalDbModes == {"UTILITY", "NORMAL"}

\* Lines 1071-1074 with a mode other than UTILITY only logged: the run goes
\* on with the instance it found.
StopMasterOnly_WarnOnly ==
    /\ pc = "check_mode"
    /\ \E mode \in LocalDbModes :
          IF mode = "UTILITY"
          THEN /\ lifecycle' = Append(lifecycle, "stop_master_only")
               /\ clusterMode' = "stopped"
          ELSE UNCHANGED <<clusterMode, lifecycle>>
    /\ pc' = "connectivity"
    /\ UNCHANGED <<disk, flatFile, sigint, new_filespace_name, is_super, error,
                   cur_filespace_entries, fwd, rbk, faults, failed_check, disk0, flatFile0, mode0, inject, tmpFile, ret, tempFlatFile, tempDirs>>

\* Lines 1071-1074: stop the master-only instance if get_local_db_mode
\* reports UTILITY, else raise 'Database state is invalid.'.
StopMasterOnly ==
    /\ pc = "check_mode"
    /\ \E mode \in LocalDbModes :
       IF mode = "UTILITY"
       THEN /\ lifecycle' = Append(lifecycle, "stop_master_only")
            /\ \E ok \in BOOLEAN :
                  IF ok THEN /\ clusterMode' = "stopped"
                             /\ pc' = "connectivity"
                             /\ UNCHANGED error
                  ELSE /\ Raise("GpStopMasterOnlyFailed")
                       /\ UNCHANGED clusterMode
       ELSE /\ Raise("InvalidState")
            /\ UNCHANGED <<clusterMode, lifecycle>>
    /\ UNCHANGED <<disk, flatFile, sigint, new_filespace_name, is_super,
                   cur_filespace_entries, fwd, rbk, faults, failed_check, disk0, flatFile0, mode0, inject, tmpFile, ret, tempFlatFile, tempDirs>>

\* Lines 1076-1077 without the raise: a host that does not answer is logged
\* and the run goes on.
CheckConnectivity_Ignored ==
    /\ pc = "connectivity"
    /\ pc' = "resolve"
    /\ \E reachable \in [{DbList[i].host : i \in 1..Len(DbList)} -> BOOLEAN] :
          IF \A h \in DOMAIN reachable : reachable[h]
          THEN UNCHANGED failed_check
          ELSE failed_check' = "ConnectivityFailed"
    /\ UNCHANGED <<disk, flatFile, clusterMode, sigint, new_filespace_name, is_super,
                   cur_filespace_entries, fwd, rbk, error, faults, disk0, flatFile0,
                   mode0, inject, tmpFile, ret, tempFlatFile, tempDirs, lifecycle>>

\* Lines 1076-1077: CheckConnectivity pings every host and is False at the
\* first one that does not answer.
CheckConnectivity ==
    /\ pc = "connectivity"
    /\ \E reachable \in [{DbList[i].host : i \in 1..Len(DbList)} -> BOOLEAN] :
          IF \A h \in DOMAIN reachable : reachable[h]
          THEN /\ pc' = "resolve"
               /\ UNCHANGED <<error, failed_check>>
          ELSE /\ Raise("ConnectivityFailed")
               /\ failed_check' = "ConnectivityFailed"
    /\ UNCHANGED <<disk, flatFile, clusterMode, sigint, new_filespace_name, is_super,
                   cur_filespace_entries, fwd, rbk, faults, disk0, flatFile0, mode0, inject, tmpFile, ret, tempFlatFile, tempDirs,
                   lifecycle>>

\* Lines 1086-1109: resolve the current entries and build the operations.
Resolve ==
    /\ pc = "resolve"
    /\ IF CurrentEntriesResolve(flatFile)
       THEN /\ cur_filespace_entries' =
                    GetFilespaceEntriesDict(GetCurrentFilespaceEntries(flatFile))
            /\ fwd' = [dbid \in DbIds |-> "pending"]
            /\ pc' = "forward"
            /\ UNCHANGED error
       ELSE /\ Raise("ResolveFailed")
            /\ UNCHANGED <<cur_filespace_entries, fwd>>
    /\ UNCHANGED <<disk, flatFile, clusterMode, sigint, new_filespace_name, is_super,
                   rbk, faults, failed_check, disk0, flatFile0, mode0, inject, tmpFile, ret, tempFlatFile, tempDirs, lifecycle>>

\* The locals of execute after line 1093.
new_filespace_entries == GetFilespaceEntriesDict(GetFilespaceEntries(new_filespace_name))
pg_system_filespace_entries == GetFilespaceEntriesDict(GetFilespaceEntries(PG_SYSTEM_FILESPACE))
cur_filespace_name == getFileSpaceName(cur_filespace_entries[1][1])

\* A batch that returns as soon as one of its operations has completed.
Completed_First(ops) == \E dbid \in DbIds : ops[dbid] \in {"ok", "failed"}

\* ParallelOperation(operations, NUM_WORKERS).run() has returned: every
\* operation of the batch has completed, with a result or an exception.
Completed(ops) == \A dbid \in DbIds : ops[dbid] \in {"ok", "failed"}

\* The faults an invocation may hit: any, while the run has faults left.
FaultChoices == IF faults < MaxFaults THEN Faults ELSE {NoFault}

\* The operation of one segment with the peer taken from the entries of the
\* filespace in effect instead of the new ones (line 960).
ForwardOperation_OldPeer(seg, fault) ==
    MoveTransFilespaceLocally(disk, flatFile,
        cur_filespace_entries[seg.dbid], new_filespace_name,
        new_filespace_entries[seg.dbid],
        get_peer_filespace_entry(cur_filespace_entries, seg.dbid, seg.content, DbList),
        pg_system_filespace_entries[seg.dbid], FALSE, fault)

\* GetMoveOperationList.execute (lines 953-969): the operation of one segment,
\* with the peer taken from the new entries.
ForwardOperation(seg, fault) ==
    MoveTransFilespaceLocally(disk, flatFile,
        cur_filespace_entries[seg.dbid], new_filespace_name,
        new_filespace_entries[seg.dbid],
        get_peer_filespace_entry(new_filespace_entries, seg.dbid, seg.content, DbList),
        pg_system_filespace_entries[seg.dbid], FALSE, fault)

\* Line 1114: ParallelOperation runs the operation of every segment, in any
\* order; the exception of an operation is kept in it.
ForwardOp(i) ==
    /\ pc = "forward"
    /\ fwd[DbList[i].dbid] = "pending"
    /\ \E fault \in FaultChoices :
          LET r == ForwardOperation(DbList[i], fault)
          IN  /\ disk' = r.disk
              /\ flatFile' = r.file
              /\ fwd' = [fwd EXCEPT ![DbList[i].dbid] = IF r.ok THEN "ok" ELSE "failed"]
              /\ faults' = IF fault = NoFault THEN faults ELSE faults + 1
    /\ UNCHANGED <<clusterMode, sigint, pc, new_filespace_name, is_super,
                   cur_filespace_entries, rbk, error, failed_check, disk0, flatFile0, mode0, inject, tmpFile, ret, tempFlatFile, tempDirs, lifecycle>>

\* Lines 1116-1123 with the rollback outside the handler: it runs after
\* every forward batch, failed or not.
CollectForward_AlwaysRollback ==
    /\ pc = "forward"
    /\ Completed(fwd)
    /\ pc' = "rollback"
    /\ rbk' = [dbid \in DbIds |-> "pending"]
    /\ faults' = 0
    /\ UNCHANGED <<disk, flatFile, clusterMode, sigint, new_filespace_name, is_super,
                   cur_filespace_entries, fwd, error, failed_check, disk0, flatFile0, mode0, inject, tmpFile, ret, tempFlatFile, tempDirs,
                   lifecycle>>

\* A forward batch that is abandoned at the first exception: the results
\* are read as soon as one operation has failed, the others still pending.
CollectForward_FirstFailure ==
    /\ pc = "forward"
    /\ Completed(fwd) \/ \E dbid \in DbIds : fwd[dbid] = "failed"
    /\ IF \E dbid \in DbIds : fwd[dbid] = "failed"
       THEN /\ pc' = "rollback"
            /\ rbk' = [dbid \in DbIds |-> "pending"]
       ELSE /\ pc' = "start_database"
            /\ UNCHANGED rbk
    /\ faults' = 0
    /\ UNCHANGED <<disk, flatFile, clusterMode, sigint, new_filespace_name, is_super,
                   cur_filespace_entries, fwd, error, failed_check, disk0, flatFile0, mode0, inject, tmpFile, ret, tempFlatFile, tempDirs,
                   lifecycle>>

\* Lines 1116-1123: get_ret of every operation; the first exception starts
\* RollBackFilespaceChanges.
CollectForward ==
    /\ pc = "forward"
    /\ Completed(fwd)
    /\ IF \E dbid \in DbIds : fwd[dbid] = "failed"
       THEN /\ pc' = "rollback"
            /\ rbk' = [dbid \in DbIds |-> "pending"]
       ELSE /\ pc' = "start_database"
            /\ UNCHANGED rbk
    /\ faults' = 0
    /\ UNCHANGED <<disk, flatFile, clusterMode, sigint, new_filespace_name, is_super,
                   cur_filespace_entries, fwd, error, failed_check, disk0, flatFile0, mode0, inject, tmpFile, ret, tempFlatFile, tempDirs,
                   lifecycle>>

\* The rollback operation without rollback=True (line 909).
RollbackOperation_Forward(seg, fault) ==
    MoveTransFilespaceLocally(disk, flatFile,
        new_filespace_entries[seg.dbid], cur_filespace_name,
        cur_filespace_entries[seg.dbid],
        get_peer_filespace_entry(cur_filespace_entries, seg.dbid, seg.content, DbList),
        pg_system_filespace_entries[seg.dbid], FALSE, fault)

\* Rollback operation that takes the peer from the target entries.
RollbackOperation_NewPeer(seg, fault) ==
    MoveTransFilespaceLocally(disk, flatFile,
        new_filespace_entries[seg.dbid], cur_filespace_name,
        cur_filespace_entries[seg.dbid],
        get_peer_filespace_entry(new_filespace_entries, seg.dbid, seg.content, DbList),
        pg_system_filespace_entries[seg.dbid], TRUE, fault)

\* RollBackFilespaceChanges.execute (lines 896-913): the operation of one
\* segment moves from the new entry to the current one, with the peer taken
\* from the current entries and rollback=True.
RollbackOperation(seg, fault) ==
    MoveTransFilespaceLocally(disk, flatFile,
        new_filespace_entries[seg.dbid], cur_filespace_name,
        cur_filespace_entries[seg.dbid],
        get_peer_filespace_entry(cur_filespace_entries, seg.dbid, seg.content, DbList),
        pg_system_filespace_entries[seg.dbid], TRUE, fault)

\* Line 928: ParallelOperation of the rollback operations.
RollbackOp(i) ==
    /\ pc = "rollback"
    /\ rbk[DbList[i].dbid] = "pending"
    /\ \E fault \in FaultChoices :
          LET r == RollbackOperation(DbList[i], fault)
          IN  /\ disk' = r.disk
              /\ flatFile' = r.file
              /\ rbk' = [rbk EXCEPT ![DbList[i].dbid] = IF r.ok THEN "ok" ELSE "failed"]
              /\ faults' = IF fault = NoFault THEN faults ELSE faults + 1
    /\ UNCHANGED <<clusterMode, sigint, pc, new_filespace_name, is_super,
                   cur_filespace_entries, fwd, error, failed_check, disk0, flatFile0, mode0, inject, tmpFile, ret, tempFlatFile, tempDirs, lifecycle>>

\* A rollback that runs the rollback operations that failed once more.
CollectRollback_Retry ==
    /\ pc = "rollback"
    /\ Completed(rbk)
    /\ IF \E dbid \in DbIds : rbk[dbid] = "failed"
       THEN /\ rbk' = [dbid \in DbIds |-> IF rbk[dbid] = "failed" THEN "pending" ELSE rbk[dbid]]
            /\ UNCHANGED <<pc, error>>
       ELSE /\ pc' = "start_database"
            /\ UNCHANGED <<rbk, error>>
    /\ UNCHANGED <<disk, flatFile, clusterMode, sigint, new_filespace_name, is_super,
                   cur_filespace_entries, fwd, faults, failed_check, disk0, flatFile0, mode0, inject, tmpFile, ret, tempFlatFile, tempDirs,
                   lifecycle>>

\* Lines 931-932 and 1124-1125: get_ret of every rollback operation; an
\* exception becomes MoveFilespaceError('Rollback Failed !'), raised from
\* the handler of line 1119, past line 1128.
CollectRollback ==
    /\ pc = "rollback"
    /\ Completed(rbk)
    /\ IF \E dbid \in DbIds : rbk[dbid] = "failed"
       THEN Raise("RollbackFailed")
       ELSE /\ pc' = "start_database"
            /\ UNCHANGED error
    /\ UNCHANGED <<disk, flatFile, clusterMode, sigint, new_filespace_name, is_super,
                   cur_filespace_entries, fwd, rbk, faults, failed_check, disk0, flatFile0, mode0, inject, tmpFile, ret, tempFlatFile, tempDirs,
                   lifecycle>>

\* Line 1128: start_database.
StartDatabase ==
    /\ pc = "start_database"
    /\ lifecycle' = Append(lifecycle, "start_database")
    /\ \E ok \in BOOLEAN :
          IF ok THEN /\ clusterMode' = "normal"
                     /\ pc' = "finally"
                     /\ UNCHANGED error
          ELSE /\ Raise("GpStartFailed")
               /\ UNCHANGED clusterMode
    /\ UNCHANGED <<disk, flatFile, sigint, new_filespace_name, is_super,
                   cur_filespace_entries, fwd, rbk, faults, failed_check, disk0, flatFile0, mode0, inject, tmpFile, ret, tempFlatFile, tempDirs>>

\* execute without the finally clause: SIGINT stays ignored.
Finally_NoRestore ==
    /\ pc = "finally"
    /\ pc' = "done"
    /\ UNCHANGED <<disk, flatFile, clusterMode, sigint, new_filespace_name, is_super,
                   cur_filespace_entries, fwd, rbk, error, faults, failed_check, disk0, flatFile0,
                   mode0, inject, tmpFile, ret, tempFlatFile, tempDirs, lifecycle>>

\* Lines 1130-1132: the finally clause restores the handler of SIGINT and
\* execute returns, or the exception goes on to the caller.
Finally ==
    /\ pc = "finally"
    /\ sigint' = "default"
    /\ pc' = "done"
    /\ UNCHANGED <<disk, flatFile, clusterMode, new_filespace_name, is_super,
                   cur_filespace_entries, fwd, rbk, error, faults, failed_check, disk0, flatFile0,
                   mode0, inject, tmpFile, ret, tempFlatFile, tempDirs, lifecycle>>

Next ==
    \/ DisableSigint
    \/ StopDatabase
    \/ StartMasterOnly
    \/ Validate
    \/ ValidationCleanup
    \/ StopMasterOnly
    \/ CheckConnectivity
    \/ Resolve
    \/ \E i \in 1..Len(DbList) : ForwardOp(i)
    \/ CollectForward
    \/ \E i \in 1..Len(DbList) : RollbackOp(i)
    \/ CollectRollback
    \/ StartDatabase
    \/ Finally

Spec == Init /\ [][Next]_vars

(***************************************************************************)
(* Round trip of the engine on one segment: from the filespace in effect   *)
(* to another one and back, both invocations in forward mode and without a *)
(* fault. fwd marks the segment, cur_filespace_entries holds the entries   *)
(* of the first filespace and new_filespace_name names the second. Every   *)
(* directory exists; those of the two filespaces hold any of the populated *)
(* transaction directories.                                                *)
(***************************************************************************)
RoundTripInit ==
    /\ \E a \in FilespaceNames, b \in FilespaceNames, dbid \in DbIds :
       \E in_a \in SUBSET PopulatedDirs, in_b \in SUBSET PopulatedDirs :
          /\ a # b
          /\ new_filespace_name = b
          /\ cur_filespace_entries = GetFilespaceEntriesDict(GetFilespaceEntries(a))
          /\ fwd = [d \in DbIds |-> IF d = dbid THEN "pending" ELSE "none"]
          /\ flatFile = [d \in DbIds |-> FlatFileFor(a, d)]
          /\ disk = [p \in Paths |->
                       InitialDir(PathFilespace(p), PathDbId(p),
                                  IF PathFilespace(p) = a THEN in_a
                                  ELSE IF PathFilespace(p) = b THEN in_b ELSE {},
                                  {})]
    /\ pc = "rt_start"
    /\ clusterMode = "stopped"
    /\ sigint = "default"
    /\ is_super = TRUE
    /\ rbk = [dbid \in DbIds |-> "none"]
    /\ error = ""
    /\ failed_check = ""
    /\ faults = 0
    /\ disk0 = disk
    /\ flatFile0 = flatFile
    /\ mode0 = clusterMode
    /\ inject = NoInject
    /\ lifecycle = <<>>
    /\ tmpFile = [dbid \in DbIds |-> NoFile]
    /\ ret = NoRet
    /\ tempFlatFile = [dbid \in DbIds |-> NoFile]
    /\ tempDirs = [p \in Paths |-> NoTempDir]

\* The segment of the round trip.
RoundTripSeg == CHOOSE seg \in Segs : fwd[seg.dbid] # "none"

\* MoveTransFilespaceLocally from the first filespace to the second.
RoundTripForth ==
    /\ pc = "rt_start"
    /\ LET r == ForwardOperation(RoundTripSeg, NoFault)
       IN  /\ r.ok
           /\ disk' = r.disk
           /\ flatFile' = r.file
    /\ pc' = "rt_moved"
    /\ UNCHANGED <<clusterMode, sigint, new_filespace_name, is_super,
                   cur_filespace_entries, fwd, rbk, error, failed_check, faults,
                   disk0, flatFile0, mode0, inject, tmpFile, ret, tempFlatFile, tempDirs, lifecycle>>

\* MoveTransFilespaceLocally from the second filespace back to the first:
\* the operation GetMoveOperationList builds when the second is in effect
\* and the first is the target.
RoundTripBack ==
    /\ pc = "rt_moved"
    /\ LET seg == RoundTripSeg
           r == MoveTransFilespaceLocally(disk, flatFile,
                    new_filespace_entries[seg.dbid], cur_filespace_name,
                    cur_filespace_entries[seg.dbid],
                    get_peer_filespace_entry(cur_filespace_entries, seg.dbid,
                                             seg.content, DbList),
                    pg_system_filespace_entries[seg.dbid], FALSE, NoFault)
       IN  /\ r.ok
           /\ disk' = r.disk
           /\ flatFile' = r.file
    /\ pc' = "rt_back"
    /\ UNCHANGED <<clusterMode, sigint, new_filespace_name, is_super,
                   cur_filespace_entries, fwd, rbk, error, failed_check, faults,
                   disk0, flatFile0, mode0, inject, tmpFile, ret, tempFlatFile, tempDirs, lifecycle>>

RoundTripNext == RoundTripForth \/ RoundTripBack

RoundTripSpec == RoundTripInit /\ [][RoundTripNext]_vars

(***************************************************************************)
(* The flat-file step of the engine (lines 648-677) on one segment,        *)
(* statement by statement; the process may die between any two statements. *)
(* fwd marks the segment, cur_filespace_entries holds the entries of the   *)
(* filespace in effect and new_filespace_name names the target.            *)
(***************************************************************************)
FlatFileInit ==
    /\ \E a \in FilespaceNames, b \in FilespaceNames, dbid \in DbIds :
          /\ a # b
          /\ new_filespace_name = b
          /\ cur_filespace_entries = GetFilespaceEntriesDict(GetFilespaceEntries(a))
          /\ fwd = [d \in DbIds |-> IF d = dbid THEN "pending" ELSE "none"]
          /\ flatFile = [d \in DbIds |-> FlatFileFor(a, d)]
          \* a temporary file may be left from an earlier run that failed
          /\ \E left \in {NoFile, <<>>, FlatFileFor("slow_hdd", dbid)} :
                tmpFile = [d \in DbIds |-> IF d = dbid THEN left ELSE NoFile]
    /\ disk = [p \in Paths |-> EmptyDir]
    /\ pc = "ff_start"
    /\ clusterMode = "stopped"
    /\ sigint = "default"
    /\ is_super = TRUE
    /\ rbk = [dbid \in DbIds |-> "none"]
    /\ error = ""
    /\ failed_check = ""
    /\ faults = 0
    /\ disk0 = disk
    /\ flatFile0 = flatFile
    /\ mode0 = clusterMode
    /\ inject = NoInject
    /\ lifecycle = <<>>
    /\ ret = NoRet
    /\ tempFlatFile = [dbid \in DbIds |-> NoFile]
    /\ tempDirs = [p \in Paths |-> NoTempDir]

\* The segment of the invocation, and the segment that holds its flat file.
FlatFileSeg == CHOOSE seg \in Segs : fwd[seg.dbid] # "none"
FlatFileDbId == FlatFileOwner(pg_system_filespace_entries[FlatFileSeg.dbid][3])

\* lines_to_write of the invocation (lines 661-665).
FlatFileLines ==
    lines_to_write(new_filespace_entries[FlatFileSeg.dbid][1],
                   new_filespace_entries[FlatFileSeg.dbid],
                   get_peer_filespace_entry(new_filespace_entries, FlatFileSeg.dbid,
                                            FlatFileSeg.content, DbList))

FlatFileUnchanged ==
    UNCHANGED <<disk, clusterMode, sigint, new_filespace_name, is_super,
                cur_filespace_entries, fwd, rbk, error, failed_check, faults,
                disk0, flatFile0, mode0, inject, lifecycle, ret,
                tempFlatFile, tempDirs>>

\* Lines 651-654: the target is pg_system: os.remove of the flat file, if
\* there is one, and return.
FlatFileRemove ==
    /\ pc = "ff_start"
    /\ new_filespace_name = PG_SYSTEM_FILESPACE
    /\ flatFile' = [flatFile EXCEPT ![FlatFileDbId] = NoFile]
    /\ pc' = "ff_done"
    /\ UNCHANGED tmpFile
    /\ FlatFileUnchanged

\* Line 660: open(temp path, 'w') creates the temporary file or truncates it.
FlatFileOpen ==
    /\ pc = "ff_start"
    /\ new_filespace_name # PG_SYSTEM_FILESPACE
    /\ tmpFile' = [tmpFile EXCEPT ![FlatFileDbId] = <<>>]
    /\ pc' = "ff_opened"
    /\ UNCHANGED flatFile
    /\ FlatFileUnchanged

\* The write without a temporary file: the lines go to the flat file itself.
FlatFileWrite_InPlace ==
    /\ pc = "ff_opened"
    /\ \E k \in 0..Len(FlatFileLines), raised \in BOOLEAN :
          /\ flatFile' = [flatFile EXCEPT ![FlatFileDbId] = SubSeq(FlatFileLines, 1, k)]
          /\ pc' = IF raised THEN "ff_failed" ELSE "ff_written"
    /\ UNCHANGED tmpFile
    /\ FlatFileUnchanged

\* Lines 661-667: file.write(lines_to_write) and the close of the with
\* block. The file system may take only the first k lines, and the write may
\* raise (IOError) or return.
FlatFileWrite ==
    /\ pc = "ff_opened"
    /\ \E k \in 0..Len(FlatFileLines), raised \in BOOLEAN :
          /\ tmpFile' = [tmpFile EXCEPT ![FlatFileDbId] = SubSeq(FlatFileLines, 1, k)]
          /\ pc' = IF raised THEN "ff_failed" ELSE "ff_written"
    /\ UNCHANGED flatFile
    /\ FlatFileUnchanged

\* Lines 670-673: read the temporary file back and compare.
FlatFileVerify ==
    /\ pc = "ff_written"
    /\ pc' = IF tmpFile[FlatFileDbId] # FlatFileLines THEN "ff_failed" ELSE "ff_verified"
    /\ UNCHANGED <<flatFile, tmpFile>>
    /\ FlatFileUnchanged

\* Line 677: shutil.move of the temporary file over the flat file, a rename
\* within one directory.
FlatFileMove ==
    /\ pc = "ff_verified"
    /\ flatFile' = [flatFile EXCEPT ![FlatFileDbId] = tmpFile[FlatFileDbId]]
    /\ tmpFile' = [tmpFile EXCEPT ![FlatFileDbId] = NoFile]
    /\ pc' = "ff_done"
    /\ FlatFileUnchanged

\* The process dies between two statements.
FlatFileCrash ==
    /\ pc \in {"ff_start", "ff_opened", "ff_written", "ff_verified"}
    /\ pc' = "ff_crashed"
    /\ UNCHANGED <<flatFile, tmpFile>>
    /\ FlatFileUnchanged

FlatFileNext ==
    \/ FlatFileRemove
    \/ FlatFileOpen
    \/ FlatFileWrite
    \/ FlatFileVerify
    \/ FlatFileMove
    \/ FlatFileCrash

FlatFileSpec == FlatFileInit /\ [][FlatFileNext]_vars

(***************************************************************************)
(* The read-only operations, each run on its own: the resolver             *)
(* (GetFilespaceEntries, GetCurrentFilespaceEntries,                       *)
(* get_peer_filespace_entry) and CheckFilespaceConsistency. The flat files *)
(* are in any state an earlier run, a crash or an operator may have left.  *)
(***************************************************************************)
\* The flat file of a segment when the cluster as a whole is in `base`: the
\* one of a filespace, or one whose oid line is an integer that is no oid of
\* the catalog.
BaseFlatFile(base, dbid) ==
    IF base = "unknown_oid"
    THEN << <<"1">> >> \o Tail(FlatFileFor("fast_ssd", dbid))
    ELSE FlatFileFor(base, dbid)

\* What the flat file of one segment may hold instead.
FlatFileChoices(dbid) ==
    LET good == FlatFileFor("fast_ssd", dbid)
    IN  {NoFile, good, FlatFileFor("slow_hdd", dbid),
         <<>>,                                                  \* an empty file
         << <<"1">> >> \o Tail(good),                           \* no oid of the catalog
         << <<"x">> >> \o Tail(good),                           \* no integer
         good \o << <<"9", "/tmp">> >>,                         \* one entry line more
         good \o << <<"junk">> >>,                              \* one line of one token more
         SubSeq(good, 1, Len(good) - 1),                        \* the last entry line missing
         << good[1], <<Str(dbid), "/tmp">> >> \o Tail(Tail(good))}  \* another directory in the own line

\* The segment lists get_peer_filespace_entry is called with: the catalog's,
\* the master alone, a primary without mirror, the catalog's in reverse
\* order, and a master with a standby.
PeerTopologies ==
    {DbList,
     SubSeq(DbList, 1, 1),
     SubSeq(DbList, 1, 2),
     <<DbList[3], DbList[2], DbList[1]>>,
     <<DbList[1], DbList[2], [dbid |-> 3, content |-> -1, role |-> "m", host |-> "smdw"]>>}

QueryInit ==
    /\ \E base \in FilespaceNames \cup {"unknown_oid"}, odd \in DbIds :
       \E file \in FlatFileChoices(odd) \cup {BaseFlatFile(base, odd)} :
          flatFile = [dbid \in DbIds |-> IF dbid = odd THEN file ELSE BaseFlatFile(base, dbid)]
    /\ \E missing \in SUBSET {<<"fast_ssd", 3>>} :
          disk = [p \in Paths |-> InitialDir(PathFilespace(p), PathDbId(p), {}, missing)]
    /\ pc = "query"
    /\ ret = NoRet
    /\ tempFlatFile = [dbid \in DbIds |-> NoFile]
    /\ tempDirs = [p \in Paths |-> NoTempDir]
    /\ clusterMode = "normal"
    /\ sigint = "default"
    /\ is_super = TRUE
    /\ new_filespace_name = ""
    /\ cur_filespace_entries = None
    /\ fwd = [dbid \in DbIds |-> "none"]
    /\ rbk = [dbid \in DbIds |-> "none"]
    /\ error = ""
    /\ failed_check = ""
    /\ faults = 0
    /\ disk0 = disk
    /\ flatFile0 = flatFile
    /\ mode0 = clusterMode
    /\ inject = NoInject
    /\ lifecycle = <<>>
    /\ tmpFile = [dbid \in DbIds |-> NoFile]

\* Operation.run of a read-only operation: ret holds what execute returned,
\* or that it raised; nothing else changes.
Return(op, args, raised, value) ==
    /\ pc = "query"
    /\ pc' = "returned"
    /\ ret' = [op |-> op, args |-> args, raised |-> raised, value |-> value]
    /\ UNCHANGED <<disk, flatFile, clusterMode, sigint, new_filespace_name, is_super,
                   cur_filespace_entries, fwd, rbk, error, failed_check, faults, disk0,
                   flatFile0, mode0, inject, lifecycle, tmpFile, tempFlatFile, tempDirs>>

\* GetFilespaceEntries(gparray, filespace_name).run()
RunGetFilespaceEntries ==
    \E filespace_name \in FilespaceNames \cup {"no_such_fs"} :
        IF IsFilespaceName(filespace_name)
        THEN Return("GetFilespaceEntries", <<filespace_name>>, FALSE,
                    GetFilespaceEntries(filespace_name))
        ELSE Return("GetFilespaceEntries", <<filespace_name>>, TRUE, <<>>)

\* GetCurrentFilespaceEntries(gparray, TRANSACTION_FILES).run()
RunGetCurrentFilespaceEntries ==
    IF CurrentEntriesResolve(flatFile)
    THEN Return("GetCurrentFilespaceEntries", <<>>, FALSE, GetCurrentFilespaceEntries(flatFile))
    ELSE Return("GetCurrentFilespaceEntries", <<>>, TRUE, <<>>)

\* get_peer_filespace_entry(filespace_entries, dbid, content_id, segments)
\* on the entries of a filespace.
RunGetPeerFilespaceEntry ==
    \E name \in {"pg_system", "fast_ssd"}, segments \in PeerTopologies :
    \E dbid \in DbIds, content_id \in {-1, 0} :
        LET filespace_entries == GetFilespaceEntriesDict(GetFilespaceEntries(name))
        IN  Return("get_peer_filespace_entry",
                   <<filespace_entries, dbid, content_id, segments>>, FALSE,
                   get_peer_filespace_entry(filespace_entries, dbid, content_id, segments))

\* CheckFilespaceConsistency(gparray, TRANSACTION_FILES).run()
RunCheckFilespaceConsistency ==
    LET v == CheckFilespaceConsistency(disk, flatFile)
    IN  Return("CheckFilespaceConsistency", <<>>, v = "raised", v)

QueryNext ==
    \/ RunGetFilespaceEntries
    \/ RunGetCurrentFilespaceEntries
    \/ RunGetPeerFilespaceEntry
    \/ RunCheckFilespaceConsistency

QuerySpec == QueryInit /\ [][QueryNext]_vars

(***************************************************************************)
(* UpdateFlatFiles (addmirrors, gpexpand): the flat files of both          *)
(* categories are written again on the primaries or on the mirrors.        *)
(* ret.args holds the argument `primaries`, fwd the operations of the      *)
(* batch that runs, cur_filespace_entries the entries of the category.     *)
(***************************************************************************)
\* UpdateFlatFilesLocally.execute on the flat file of segment `dbid`: the
\* lines go to a temporary file that is read back and moved over the flat
\* file; then the directory of the entry is created if it is missing.
UpdateFlatFilesLocally(dk, ff, dbid, filespace_oid, cur_filespace_entry, peer_filespace_entry, fault) ==
    IF fault.kind = "verify"
    THEN [disk |-> dk, file |-> ff, ok |-> FALSE]
    ELSE [disk |-> [dk EXCEPT ![cur_filespace_entry[3]].exists = TRUE],
          file |-> [ff EXCEPT ![dbid] =
                       lines_to_write(filespace_oid, cur_filespace_entry, peer_filespace_entry)],
          ok |-> TRUE]

\* UpdateFlatFiles on every segment, whatever its role.
UpdateSegments_All(primaries) == Segs

\* Lines 454-457: the segments of the chosen role.
UpdateSegments(primaries) ==
    {seg \in Segs : seg.role = (IF primaries THEN "p" ELSE "m")}

\* The flat files of the category the run is at.
UpdateCategory == IF pc \in {"upd_trans", "upd_trans_batch"} THEN "trans" ELSE "temp"
UpdateFiles == IF UpdateCategory = "trans" THEN flatFile ELSE tempFlatFile

UpdateInit ==
    /\ \E base \in FilespaceNames, odd \in DbIds :
       \E file \in {NoFile, <<>>, FlatFileFor("slow_hdd", odd), BaseFlatFile(base, odd)} :
          flatFile = [dbid \in DbIds |-> IF dbid = odd THEN file ELSE BaseFlatFile(base, dbid)]
    /\ \E base \in {"pg_system", "fast_ssd"}, file \in {NoFile, FlatFileFor("fast_ssd", 3)} :
          tempFlatFile = [dbid \in DbIds |-> IF dbid = 3 THEN file ELSE BaseFlatFile(base, dbid)]
    /\ \E missing \in SUBSET {<<"fast_ssd", 3>>} :
          disk = [p \in Paths |-> InitialDir(PathFilespace(p), PathDbId(p), {}, missing)]
    /\ \E primaries \in BOOLEAN :
          ret = [op |-> "UpdateFlatFiles", args |-> <<primaries>>, raised |-> FALSE, value |-> <<>>]
    /\ pc = "upd_trans"
    /\ clusterMode = "normal"
    /\ sigint = "default"
    /\ is_super = TRUE
    /\ new_filespace_name = ""
    /\ cur_filespace_entries = None
    /\ fwd = [dbid \in DbIds |-> "none"]
    /\ rbk = [dbid \in DbIds |-> "none"]
    /\ error = ""
    /\ failed_check = ""
    /\ faults = 0
    /\ disk0 = disk
    /\ flatFile0 = flatFile
    /\ mode0 = clusterMode
    /\ inject = NoInject
    /\ lifecycle = <<>>
    /\ tmpFile = [dbid \in DbIds |-> NoFile]
    /\ tempDirs = [p \in Paths |-> NoTempDir]

\* Lines 464-469 and 497-502: a category is skipped when the control node
\* has no flat file of it; else the current entries are read (which raises
\* on a flat file that names no filespace) and one operation is built for
\* every segment of the role.
UpdateBuild ==
    /\ pc \in {"upd_trans", "upd_temp"}
    /\ IF ~CheckFile(UpdateFiles, pg_system_filespace_entries[1][3])
       THEN /\ pc' = IF pc = "upd_trans" THEN "upd_temp" ELSE "upd_done"
            /\ UNCHANGED <<cur_filespace_entries, fwd, error, ret>>
       ELSE IF ~CurrentEntriesResolve(UpdateFiles)
       THEN /\ pc' = "upd_failed"
            /\ error' = "ResolveFailed"
            /\ ret' = [ret EXCEPT !.raised = TRUE]
            /\ UNCHANGED <<cur_filespace_entries, fwd>>
       ELSE /\ pc' = IF pc = "upd_trans" THEN "upd_trans_batch" ELSE "upd_temp_batch"
            /\ cur_filespace_entries' =
                  GetFilespaceEntriesDict(GetCurrentFilespaceEntries(UpdateFiles))
            /\ fwd' = [dbid \in DbIds |->
                         IF \E seg \in UpdateSegments(ret.args[1]) : seg.dbid = dbid
                         THEN "pending" ELSE "none"]
            /\ UNCHANGED <<error, ret>>
    /\ UNCHANGED <<disk, flatFile, tempFlatFile, clusterMode, sigint, new_filespace_name,
                   is_super, rbk, failed_check, faults, disk0, flatFile0, mode0, inject, lifecycle,
                   tmpFile, tempDirs>>

\* Lines 471-489 and 504-522: the operation of one segment of the batch.
UpdateOp(i) ==
    /\ pc \in {"upd_trans_batch", "upd_temp_batch"}
    /\ fwd[DbList[i].dbid] = "pending"
    /\ \E fault \in {f \in Faults : f.kind \in {"none", "verify"}} :
          LET seg == DbList[i]
              r == UpdateFlatFilesLocally(disk, UpdateFiles, seg.dbid,
                      cur_filespace_entries[seg.dbid][1], cur_filespace_entries[seg.dbid],
                      get_peer_filespace_entry(cur_filespace_entries, seg.dbid,
                                               seg.content, DbList),
                      fault)
          IN  /\ disk' = r.disk
              /\ IF UpdateCategory = "trans"
                 THEN flatFile' = r.file /\ UNCHANGED tempFlatFile
                 ELSE tempFlatFile' = r.file /\ UNCHANGED flatFile
              /\ fwd' = [fwd EXCEPT ![seg.dbid] = IF r.ok THEN "ok" ELSE "failed"]
    /\ UNCHANGED <<clusterMode, sigint, pc, new_filespace_name, is_super,
                   cur_filespace_entries, rbk, error, failed_check, faults, disk0, flatFile0,
                   mode0, inject, lifecycle, tmpFile, ret, tempDirs>>

\* Lines 491-495 and 524-528: when ParallelOperation has returned, get_ret
\* of every operation; an exception becomes MoveFilespaceError.
UpdateCollect ==
    /\ pc \in {"upd_trans_batch", "upd_temp_batch"}
    /\ \A dbid \in DbIds : fwd[dbid] # "pending"
    /\ IF \E dbid \in DbIds : fwd[dbid] = "failed"
       THEN /\ pc' = "upd_failed"
            /\ error' = "UpdateFailed"
            /\ ret' = [ret EXCEPT !.raised = TRUE]
            /\ UNCHANGED fwd
       ELSE /\ pc' = IF pc = "upd_trans_batch" THEN "upd_temp" ELSE "upd_done"
            /\ fwd' = [dbid \in DbIds |-> "none"]
            /\ UNCHANGED <<error, ret>>
    /\ UNCHANGED <<disk, flatFile, tempFlatFile, clusterMode, sigint, new_filespace_name,
                   is_super, cur_filespace_entries, rbk, failed_check, faults, disk0,
                   flatFile0, mode0, inject, lifecycle, tmpFile, tempDirs>>

UpdateNext ==
    \/ UpdateBuild
    \/ \E i \in 1..Len(DbList) : UpdateOp(i)
    \/ UpdateCollect

UpdateSpec == UpdateInit /\ [][UpdateNext]_vars

\* A run of MoveFilespace or a run of UpdateFlatFiles: everything that
\* writes flat files.
WritersSpec == (Init \/ UpdateInit) /\ [][Next \/ UpdateNext]_vars

(***************************************************************************)
(* MoveTempFilespaceLocally and a run of its forward and rollback batches. *)
(* tempDirs[path] tells of a filespace directory whether it holds          *)
(* pgsql_tmp (root), whether it holds base, the per-database directories   *)
(* of base (dbs) and those of them that hold pgsql_tmp (tmp).              *)
(***************************************************************************)
\* The per-database directories of <pg_system directory>/base.
TempDbOids == {"1", "16384"}

\* What can go wrong in one invocation: the permission probe is refused,
\* the target mount has no free block, rmtree raises with the directories
\* `kept` still there, or the flat file reads back differently.
TempFaults ==
    {[kind |-> k, kept |-> {}] : k \in {"none", "perm", "space", "verify"}}
    \cup {[kind |-> "drop", kept |-> s] : s \in (SUBSET TempDbOids) \ {{}}}

\* MoveTempFilespaceLocally.execute that always takes the else-branch of
\* line 717: only <current directory>/pgsql_tmp is removed.
MoveTempFilespaceLocally_RootOnly(dk, td, tff, current_filespace_entry, new_filespace_name_, new_filespace_entry, peer_filespace_entry, pg_system_filespace_entry, rollback, fault) ==
    LET old == current_filespace_entry[3]
        owner == FlatFileOwner(pg_system_filespace_entry[3])
        dropped == [td EXCEPT ![old].root = FALSE]
    IN  IF ~CheckDir(dk, old) THEN [dirs |-> td, file |-> tff, ok |-> TRUE]
        ELSE IF fault.kind \in {"perm", "space"} THEN [dirs |-> td, file |-> tff, ok |-> FALSE]
        ELSE IF fault.kind = "drop" /\ td[old].root
        THEN [dirs |-> td, file |-> tff, ok |-> FALSE]
        ELSE IF new_filespace_name_ = PG_SYSTEM_FILESPACE
        THEN [dirs |-> dropped, file |-> [tff EXCEPT ![owner] = NoFile], ok |-> TRUE]
        ELSE IF fault.kind = "verify"
        THEN [dirs |-> dropped, file |-> tff, ok |-> FALSE]
        ELSE [dirs |-> dropped,
              file |-> [tff EXCEPT ![owner] =
                           lines_to_write(new_filespace_entry[1], new_filespace_entry,
                                          peer_filespace_entry)],
              ok |-> TRUE]

\* MoveTempFilespaceLocally.execute (lines 698-780): nothing when the current
\* directory is missing; the probe and the free space of the target; without
\* a temporary flat file pgsql_tmp is removed under every directory that
\* ListFiles finds in <current directory>/base (a base that cannot be listed
\* raises, except in a rollback), else <current directory>/pgsql_tmp is
\* removed; then the flat file is deleted (target pg_system) or written,
\* read back and moved into place.
MoveTempFilespaceLocally(dk, td, tff, current_filespace_entry, new_filespace_name_, new_filespace_entry, peer_filespace_entry, pg_system_filespace_entry, rollback, fault) ==
    LET old == current_filespace_entry[3]
        owner == FlatFileOwner(pg_system_filespace_entry[3])
        has_file == CheckFile(tff, pg_system_filespace_entry[3])
        directories == IF td[old].base THEN td[old].dbs ELSE {}
        to_drop == IF has_file THEN (IF td[old].root THEN {"pgsql_tmp"} ELSE {})
                   ELSE directories \cap td[old].tmp
        kept == IF fault.kept \cap to_drop = {} THEN to_drop ELSE fault.kept \cap to_drop
        partly == IF has_file THEN td ELSE [td EXCEPT ![old].tmp = kept]
        dropped == IF has_file THEN [td EXCEPT ![old].root = FALSE]
                   ELSE [td EXCEPT ![old].tmp = td[old].tmp \ directories]
    IN  IF ~CheckDir(dk, old) THEN [dirs |-> td, file |-> tff, ok |-> TRUE]
        ELSE IF fault.kind \in {"perm", "space"} THEN [dirs |-> td, file |-> tff, ok |-> FALSE]
        ELSE IF ~has_file /\ ~td[old].base /\ ~rollback
        THEN [dirs |-> td, file |-> tff, ok |-> FALSE]
        ELSE IF fault.kind = "drop" /\ to_drop # {}
        THEN [dirs |-> partly, file |-> tff, ok |-> FALSE]
        ELSE IF new_filespace_name_ = PG_SYSTEM_FILESPACE
        THEN [dirs |-> dropped, file |-> [tff EXCEPT ![owner] = NoFile], ok |-> TRUE]
        ELSE IF fault.kind = "verify"
        THEN [dirs |-> dropped, file |-> tff, ok |-> FALSE]
        ELSE [dirs |-> dropped,
              file |-> [tff EXCEPT ![owner] =
                           lines_to_write(new_filespace_entry[1], new_filespace_entry,
                                          peer_filespace_entry)],
              ok |-> TRUE]

\* The start of a move of the temporary files: the temporary flat files of
\* all segments name the filespace in use, `cur` (none for pg_system). Every
\* pg_system directory holds base with the per-database directories; the
\* servers keep pgsql_tmp under them while pg_system is in use, and directly
\* under the directory of another filespace while that one is in use. The
\* mirror may lack its directory of fast_ssd.
TempInit ==
    /\ \E cur \in FilespaceNames, new \in FilespaceNames,
          tmps \in [DbIds -> SUBSET TempDbOids], roots \in [DbIds -> BOOLEAN],
          missing \in SUBSET {<<"fast_ssd", 3>>} :
          /\ new # cur
          /\ cur = PG_SYSTEM_FILESPACE => roots = [dbid \in DbIds |-> FALSE]
          /\ cur # PG_SYSTEM_FILESPACE => tmps = [dbid \in DbIds |-> {}]
          /\ new_filespace_name = new
          /\ cur_filespace_entries = GetFilespaceEntriesDict(GetFilespaceEntries(cur))
          /\ tempFlatFile = [dbid \in DbIds |-> BaseFlatFile(cur, dbid)]
          /\ disk = [p \in Paths |-> InitialDir(PathFilespace(p), PathDbId(p), {}, missing)]
          /\ tempDirs = [p \in Paths |->
                IF <<PathFilespace(p), PathDbId(p)>> \in missing THEN NoTempDir
                ELSE IF PathFilespace(p) = PG_SYSTEM_FILESPACE
                THEN [root |-> FALSE, base |-> TRUE, dbs |-> TempDbOids,
                      tmp |-> tmps[PathDbId(p)]]
                ELSE IF PathFilespace(p) = cur
                THEN [NoTempDir EXCEPT !.root = roots[PathDbId(p)]]
                ELSE NoTempDir]
    /\ pc = "temp_forward"
    /\ fwd = [dbid \in DbIds |-> "pending"]
    /\ rbk = [dbid \in DbIds |-> "none"]
    /\ clusterMode = "master_only"
    /\ sigint = "ignored"
    /\ is_super = TRUE
    /\ error = ""
    /\ failed_check = ""
    /\ faults = 0
    /\ disk0 = disk
    /\ flatFile = [dbid \in DbIds |-> NoFile]
    /\ flatFile0 = flatFile
    /\ mode0 = "normal"
    /\ inject = NoInject
    /\ lifecycle = <<>>
    /\ tmpFile = [dbid \in DbIds |-> NoFile]
    /\ ret = NoRet

TempUnchanged ==
    UNCHANGED <<disk, flatFile, clusterMode, sigint, new_filespace_name, is_super,
                cur_filespace_entries, failed_check, disk0, flatFile0, mode0, inject, lifecycle,
                tmpFile, ret>>

\* GetMoveOperationList (lines 972-978): the operation of one segment moves
\* from the current entry to the new one, with the peer of the new entries.
TempForwardOperation(seg, fault) ==
    MoveTempFilespaceLocally(disk, tempDirs, tempFlatFile,
        cur_filespace_entries[seg.dbid], new_filespace_name,
        new_filespace_entries[seg.dbid],
        get_peer_filespace_entry(new_filespace_entries, seg.dbid, seg.content, DbList),
        pg_system_filespace_entries[seg.dbid], FALSE, fault)

\* RollBackFilespaceChanges (lines 914-926): the operation of one segment
\* moves from the new entry to the current one, with rollback=True.
TempRollbackOperation(seg, fault) ==
    MoveTempFilespaceLocally(disk, tempDirs, tempFlatFile,
        new_filespace_entries[seg.dbid], cur_filespace_name,
        cur_filespace_entries[seg.dbid],
        get_peer_filespace_entry(cur_filespace_entries, seg.dbid, seg.content, DbList),
        pg_system_filespace_entries[seg.dbid], TRUE, fault)

TempFaultChoices ==
    IF faults < MaxFaults + 1 THEN TempFaults ELSE {[kind |-> "none", kept |-> {}]}

TempForwardOp(i) ==
    /\ pc = "temp_forward"
    /\ fwd[DbList[i].dbid] = "pending"
    /\ \E fault \in TempFaultChoices :
          LET r == TempForwardOperation(DbList[i], fault)
          IN  /\ tempDirs' = r.dirs
              /\ tempFlatFile' = r.file
              /\ fwd' = [fwd EXCEPT ![DbList[i].dbid] = IF r.ok THEN "ok" ELSE "failed"]
              /\ faults' = IF fault.kind = "none" THEN faults ELSE faults + 1
    /\ UNCHANGED <<pc, rbk, error>>
    /\ TempUnchanged

\* MoveFilespace.execute (lines 1092-1112): a failed operation of the batch
\* starts the rollback of every segment.
TempCollectForward ==
    /\ pc = "temp_forward"
    /\ Completed(fwd)
    /\ IF \E dbid \in DbIds : fwd[dbid] = "failed"
       THEN pc' = "temp_rollback" /\ rbk' = [dbid \in DbIds |-> "pending"]
            /\ error' = "MoveFailed"
       ELSE pc' = "temp_done" /\ UNCHANGED <<rbk, error>>
    /\ UNCHANGED <<tempDirs, tempFlatFile, fwd, faults>>
    /\ TempUnchanged

TempRollbackOp(i) ==
    /\ pc = "temp_rollback"
    /\ rbk[DbList[i].dbid] = "pending"
    /\ \E fault \in TempFaultChoices :
          LET r == TempRollbackOperation(DbList[i], fault)
          IN  /\ tempDirs' = r.dirs
              /\ tempFlatFile' = r.file
              /\ rbk' = [rbk EXCEPT ![DbList[i].dbid] = IF r.ok THEN "ok" ELSE "failed"]
              /\ faults' = IF fault.kind = "none" THEN faults ELSE faults + 1
    /\ UNCHANGED <<pc, fwd, error>>
    /\ TempUnchanged

TempCollectRollback ==
    /\ pc = "temp_rollback"
    /\ Completed(rbk)
    /\ pc' = "temp_done"
    /\ error' = IF \E dbid \in DbIds : rbk[dbid] = "failed" THEN "RollbackFailed" ELSE error
    /\ UNCHANGED <<tempDirs, tempFlatFile, fwd, rbk, faults>>
    /\ TempUnchanged

TempNext ==
    \/ \E i \in 1..Len(DbList) : TempForwardOp(i)
    \/ TempCollectForward
    \/ \E i \in 1..Len(DbList) : TempRollbackOp(i)
    \/ TempCollectRollback

TempSpec == TempInit /\ [][TempNext]_vars

(***************************************************************************)
(* GpInjectFaultProgram (clsInjectFault.py): the constructor, run,         *)
(* injectFaults and waitForFaults, and the segment servers that answer.    *)
(* inject.injected and inject.polled count the fault messages and the      *)
(* status queries sent to each segment (the latter up to MaxPolls),        *)
(* inject.answer is the last answer of each segment to a status query,     *)
(* inject.occurred the segments on which the fault has occurred.           *)
(***************************************************************************)
FaultTypes == {"error", "reset", "status"}
SyncModes == {"sync", "async", "later"}
\* What loadTargetSegments may return.
TargetChoices == {<<>>, <<2>>, <<2, 3>>, <<3, 2>>}
\* What a segment server may answer to a status query.
StatusAnswers == {"Success: done", "Success: waitMore", "Failure: no such fault"}

\* toNonNoneString of an integer option.
toNonNoneString(n) == Str(n)

\* The constructor that takes -o as it is given.
GpInjectFaultProgram_init_AsGiven(o) ==
    [raised |-> FALSE, numOccurrences |-> o, endOccurrence |-> o]

\* GpInjectFaultProgram.__init__ (lines 41-51) on the value of option -o.
GpInjectFaultProgram_init(o) ==
    IF o = 0 THEN [raised |-> FALSE, numOccurrences |-> 1, endOccurrence |-> -1]
    ELSE [raised |-> o < 0, numOccurrences |-> o, endOccurrence |-> o]

\* buildMessage (lines 57-70): the lines of the message; the options that
\* stay at their defaults are empty, the sleep time is 10.
buildMessage(options) ==
    <<"faultInject", "checkpoint", options.type, "", "", "",
      toNonNoneString(options.numOccurrences), toNonNoneString(options.endOccurrence),
      toNonNoneString(10)>>

\* getAndValidateIsSyncSetting (lines 158-164) raises unless this holds.
ValidSyncSetting(syncMode) == syncMode \in {"sync", "async"}
isSync(syncMode) == syncMode = "sync"

\* isSyncableFaultType with every type taken as one to wait for.
isSyncableFaultType_Always(type) == TRUE

\* isSyncableFaultType (lines 231-233).
isSyncableFaultType(type) == type # "reset" /\ type # "status"

InjectInit ==
    /\ \E o \in -1..MaxOccurrence, type \in FaultTypes, syncMode \in SyncModes :
          inject = [NoInject EXCEPT !.o = o, !.numOccurrences = o, !.type = type,
                                    !.syncMode = syncMode]
    /\ pc = "inj_new"
    /\ disk = [p \in Paths |-> InitialDir(PathFilespace(p), PathDbId(p), {}, {})]
    /\ flatFile = [dbid \in DbIds |-> NoFile]
    /\ clusterMode = "normal"
    /\ sigint = "default"
    /\ is_super = TRUE
    /\ new_filespace_name = ""
    /\ cur_filespace_entries = None
    /\ fwd = [dbid \in DbIds |-> "none"]
    /\ rbk = [dbid \in DbIds |-> "none"]
    /\ error = ""
    /\ failed_check = ""
    /\ faults = 0
    /\ disk0 = disk
    /\ flatFile0 = flatFile
    /\ mode0 = clusterMode
    /\ lifecycle = <<>>
    /\ tmpFile = [dbid \in DbIds |-> NoFile]
    /\ ret = NoRet
    /\ tempFlatFile = [dbid \in DbIds |-> NoFile]
    /\ tempDirs = [p \in Paths |-> NoTempDir]

InjectUnchanged ==
    UNCHANGED <<disk, flatFile, clusterMode, sigint, new_filespace_name, is_super,
                cur_filespace_entries, fwd, rbk, failed_check, faults, disk0, flatFile0,
                mode0, lifecycle, tmpFile, ret, tempFlatFile, tempDirs>>

\* The program ends with an exception.
InjectRaise(e) ==
    /\ pc' = "inj_failed"
    /\ error' = e

\* Lines 41-51: the constructor.
InjectConstruct ==
    /\ pc = "inj_new"
    /\ LET r == GpInjectFaultProgram_init(inject.o)
       IN  /\ inject' = [inject EXCEPT !.numOccurrences = r.numOccurrences,
                                       !.endOccurrence = r.endOccurrence]
           /\ IF r.raised THEN InjectRaise("invalid value for -o option")
              ELSE pc' = "inj_run" /\ UNCHANGED error
    /\ InjectUnchanged

\* Lines 238-247: run up to the call of injectFaults. The check of the
\* master options and loadTargetSegments may raise.
InjectRun ==
    /\ pc = "inj_run"
    /\ \E valid \in BOOLEAN, targets \in TargetChoices :
          IF ~valid
          THEN InjectRaise("ProgramArgumentValidationException") /\ UNCHANGED inject
          ELSE IF ~ValidSyncSetting(inject.syncMode)
          THEN InjectRaise("Invalid -m, --mode option") /\ UNCHANGED inject
          ELSE /\ inject' = [inject EXCEPT !.messageText = buildMessage(inject),
                                           !.targets = targets, !.i = 1]
               /\ pc' = "inj_inject"
               /\ UNCHANGED error
    /\ InjectUnchanged

\* Lines 181-201: one turn of the loop of injectFaults: the message goes to
\* the next segment; a return code other than 0 raises.
InjectOne ==
    /\ pc = "inj_inject"
    /\ inject.i <= Len(inject.targets)
    /\ \E rc \in {0, 1} :
          LET segment == inject.targets[inject.i]
          IN  /\ inject' = [inject EXCEPT !.injected[segment] = @ + 1, !.i = @ + 1]
              /\ IF rc # 0 THEN InjectRaise("Injection Failed")
                 ELSE UNCHANGED <<pc, error>>
    /\ InjectUnchanged

\* Lines 202 and 248-253: injectFaults returns; run either returns 0 or
\* calls waitForFaults, whose loop is left at once without segments
\* (lines 206-212).
InjectReturn ==
    /\ pc = "inj_inject"
    /\ inject.i > Len(inject.targets)
    /\ IF isSync(inject.syncMode) /\ isSyncableFaultType(inject.type)
          /\ Len(inject.targets) > 0
       THEN /\ pc' = "inj_wait"
            /\ inject' = [inject EXCEPT !.segments = inject.targets,
                                        !.segmentsForNextPass = <<>>, !.i = 1]
       ELSE /\ pc' = "inj_done"
            /\ UNCHANGED inject
    /\ UNCHANGED error
    /\ InjectUnchanged

\* A pass of waitForFaults that asks again a segment that has answered
\* 'Success: done'.
WaitPoll_KeepDone(segment, resultStr) ==
    [inject EXCEPT !.polled[segment] = IF @ < MaxPolls THEN @ + 1 ELSE @,
                   !.answer[segment] = resultStr,
                   !.segmentsForNextPass = Append(@, segment),
                   !.i = @ + 1]

\* Lines 217-225: one turn of the inner loop of waitForFaults, given the
\* answer of the segment.
WaitPoll(segment, resultStr) ==
    [inject EXCEPT !.polled[segment] = IF @ < MaxPolls THEN @ + 1 ELSE @,
                   !.answer[segment] = resultStr,
                   !.segmentsForNextPass =
                       IF resultStr = "Success: waitMore" THEN Append(@, segment) ELSE @,
                   !.i = @ + 1]

\* Lines 217-225: the status query goes to the next segment of the pass. A
\* segment on which the fault has occurred answers 'Success: done', another
\* one 'Success: waitMore'; any segment may answer something else.
WaitOne ==
    /\ pc = "inj_wait"
    /\ inject.i <= Len(inject.segments)
    /\ LET segment == inject.segments[inject.i]
       IN  \E resultStr \in StatusAnswers :
              /\ resultStr = "Success: done" => segment \in inject.occurred
              /\ resultStr = "Success: waitMore" => segment \notin inject.occurred
              /\ inject' = WaitPoll(segment, resultStr)
              /\ IF resultStr \notin {"Success: waitMore", "Success: done"}
                 THEN InjectRaise("Unexpected result from server")
                 ELSE UNCHANGED <<pc, error>>
    /\ InjectUnchanged

\* Lines 212-228: the end of a pass: the segments to ask again become the
\* segments of the next pass, and the loop is left when there is none.
WaitPass ==
    /\ pc = "inj_wait"
    /\ inject.i > Len(inject.segments)
    /\ inject' = [inject EXCEPT !.segments = inject.segmentsForNextPass,
                                !.segmentsForNextPass = <<>>, !.i = 1]
    /\ pc' = IF Len(inject.segmentsForNextPass) > 0 THEN "inj_wait" ELSE "inj_done"
    /\ UNCHANGED error
    /\ InjectUnchanged

\* The segment server: the fault that was injected occurs.
FaultOccurs(segment) ==
    /\ pc \in {"inj_inject", "inj_wait"}
    /\ inject.injected[segment] > 0
    /\ segment \notin inject.occurred
    /\ inject' = [inject EXCEPT !.occurred = @ \cup {segment}]
    /\ UNCHANGED <<pc, error>>
    /\ InjectUnchanged

\* The steps of the program.
InjectProgram ==
    \/ InjectConstruct
    \/ InjectRun
    \/ InjectOne
    \/ InjectReturn
    \/ WaitOne
    \/ WaitPass

InjectNext ==
    \/ InjectProgram
    \/ \E segment \in DbIds : FaultOccurs(segment)

InjectSpec == InjectInit /\ [][InjectNext]_vars

\* The program is one sequential process whose commands and sleeps return:
\* while it has a next statement it takes it.
InjectFairSpec == InjectSpec /\ WF_vars(InjectProgram)

(***************************************************************************)
(* Properties of a run of MoveFilespace.                                   *)
(***************************************************************************)
Done == pc = "done"
ForwardFailed == {dbid \in DbIds : fwd[dbid] = "failed"}
RollbackFailed == {dbid \in DbIds : rbk[dbid] = "failed"}
Dispatched == \E dbid \in DbIds : fwd[dbid] # "none" \/ rbk[dbid] # "none"
Unmodified == disk = disk0 /\ flatFile = flatFile0
LifecycleErrors ==
    {"GpStopFailed", "GpStartMasterOnlyFailed", "GpStopMasterOnlyFailed", "GpStartFailed"}
\* The run committed: every forward operation succeeded and execute returned.
Committed == Done /\ error = "" /\ \A dbid \in DbIds : fwd[dbid] = "ok"

\* C1: if exactly one segment's forward relocation fails (and the rollback
\* of every segment then succeeds), at the end of the run the transaction
\* directories of every segment in its pre-run location and every flat file
\* are as they were before the run.
C1_AllOrNothing ==
    (Done /\ Cardinality(ForwardFailed) = 1 /\ \A dbid \in DbIds : rbk[dbid] = "ok")
        => /\ flatFile = flatFile0
           /\ \A dbid \in DbIds :
                disk[cur_filespace_entries[dbid][3]] = disk0[cur_filespace_entries[dbid][3]]

\* C2: execute never exits with the cluster stopped or in master-only mode,
\* unless the final start of the full cluster itself failed.
C2_ExitsInNormalMode ==
    Done => (clusterMode = "normal" \/ error = "GpStartFailed")

\* C3: when a rollback operation failed, execute has issued start_database
\* by the time it exits.
C3_RollbackFailureStillRestarts ==
    (Done /\ RollbackFailed # {})
        => \E i \in 1..Len(lifecycle) : lifecycle[i] = "start_database"

\* C4: when some forward operation failed, execute exits with an exception.
C4_RollbackSignalsFailure ==
    (Done /\ ForwardFailed # {}) => error # ""

\* The target named at the start is the filespace in effect: it is pg_system
\* and the control node has no flat file, or the control node's flat file
\* names it.
SameAtStart ==
    LET control == flatFile0[1]
    IN  \/ new_filespace_name = "pg_system" /\ control = NoFile
        \/ /\ control # NoFile
           /\ \E i \in 1..Len(Filespaces) :
                 /\ Filespaces[i].name = new_filespace_name
                 /\ control[1] = <<Str(Filespaces[i].oid)>>

Last(seq) == IF seq = <<>> THEN "" ELSE seq[Len(seq)]

C6_FailedCheckTouchesNothing ==
    failed_check # "" => /\ ~Dispatched
                         /\ Unmodified
                         /\ Done => error # ""

C6_Witness ==
    Done /\ failed_check = "ConnectivityFailed" /\ error = "ConnectivityFailed"

C8_CommittedIsConsistent ==
    Committed => CheckFilespaceConsistency(disk, flatFile) = "True"

\* Line k of a flat file, <<>> when the file or the line is missing.
FlatFileLine(file, k) == IF file # NoFile /\ Len(file) >= k THEN file[k] ELSE <<>>

\* C9: after a committed run to a filespace other than pg_system, for two
\* segments of one content id the peer line (line 3) of the flat file of
\* each is the own line (line 2) of the flat file of the other.
C9_PeerSymmetry ==
    (Committed /\ new_filespace_name # PG_SYSTEM_FILESPACE)
        => \A a \in Segs, b \in Segs :
              (a.content = b.content /\ a.dbid # b.dbid)
                  => FlatFileLine(flatFile[a.dbid], 3) = FlatFileLine(flatFile[b.dbid], 2)

\* C10: after the engine has moved a segment's transaction files from
\* filespace A to filespace B and back, the owned subdirectories of the
\* segment's directory of A and the segment's flat file are as at the start.
C10_RoundTrip ==
    pc = "rt_back" =>
        LET dbid == RoundTripSeg.dbid
            dir_a == cur_filespace_entries[dbid][3]
        IN  /\ disk[dir_a].sub = disk0[dir_a].sub
            /\ flatFile[dbid] = flatFile0[dbid]

RollbackStarted == \E dbid \in DbIds : rbk[dbid] # "none"

\* C11: once the rollback operation of any segment is pending or has run,
\* the forward operation of every segment has completed, with a result or
\* an exception.
C11_ForwardCompletesBeforeRollback ==
    RollbackStarted => \A dbid \in DbIds : fwd[dbid] \in {"ok", "failed"}

C11_Witness ==
    /\ \E dbid \in DbIds : rbk[dbid] = "ok"
    /\ \E dbid \in DbIds : rbk[dbid] = "pending"
    /\ ForwardFailed # {}
    /\ \E dbid \in DbIds : fwd[dbid] = "ok"

\* C12: rollback operations exist only when some forward operation failed,
\* and a run in which a forward operation failed does not get past the
\* forward batch without every rollback operation having run.
C12_RollbackIffForwardFailed ==
    /\ RollbackStarted => ForwardFailed # {}
    /\ (pc \in {"start_database", "finally", "done"} /\ ForwardFailed # {})
          => \A dbid \in DbIds : rbk[dbid] \in {"ok", "failed"}
    /\ (Completed(fwd) /\ ForwardFailed = {}) => ~RollbackStarted

C12_Witness ==
    /\ Done /\ Cardinality(ForwardFailed) = 1
    /\ \A dbid \in DbIds : rbk[dbid] = "ok"
    /\ clusterMode = "normal"

\* What the rollback invocation of a segment must do: the engine from the
\* segment's new entry to its entry before the run, under the name of the
\* filespace in effect before the run, in rollback mode.
ReverseOf(dbid, fault) ==
    LET seg == CHOOSE sg \in Segs : sg.dbid = dbid
        before == GetFilespaceEntriesDict(GetCurrentFilespaceEntries(flatFile0))
        target == GetFilespaceEntriesDict(GetFilespaceEntries(new_filespace_name))
        pg_system == GetFilespaceEntriesDict(GetFilespaceEntries(PG_SYSTEM_FILESPACE))
    IN  MoveTransFilespaceLocally(disk, flatFile, target[dbid],
            getFileSpaceName(before[dbid][1]), before[dbid],
            get_peer_filespace_entry(before, dbid, seg.content, DbList),
            pg_system[dbid], TRUE, fault)

\* C13: the rollback is started for all segments at once, whatever their
\* forward operation did, and each rollback step is the engine run in
\* reverse, in rollback mode, on one segment.
C13_RollbackEveryNodeReversed ==
    /\ [](RollbackStarted => \A dbid \in DbIds : rbk[dbid] # "none")
    /\ [][(pc = "rollback" /\ rbk' # rbk) =>
            LET dbid == CHOOSE d \in DbIds : rbk'[d] # rbk[d]
            IN  /\ rbk[dbid] = "pending"
                /\ \E fault \in Faults :
                      LET r == ReverseOf(dbid, fault)
                      IN  /\ disk' = r.disk
                          /\ flatFile' = r.file
                          /\ rbk' = [rbk EXCEPT ![dbid] = IF r.ok THEN "ok" ELSE "failed"]]_vars

C13_Witness ==
    /\ pc = "rollback"
    /\ \A dbid \in DbIds : rbk[dbid] = "ok"
    /\ \E a \in DbIds, b \in DbIds : fwd[a] = "ok" /\ fwd[b] = "failed"
    /\ disk # disk0

\* C14: an operation that has completed is never run again, the disk and
\* the flat files change only in the step that completes a pending
\* operation, and nothing changes them once a rollback operation has failed
\* and the rollback batch has returned.
C14_NoRetry ==
    [][/\ \A dbid \in DbIds :
            /\ fwd[dbid] \in {"ok", "failed"} => fwd'[dbid] = fwd[dbid]
            /\ rbk[dbid] \in {"ok", "failed"} => rbk'[dbid] = rbk[dbid]
       /\ (disk' # disk \/ flatFile' # flatFile) =>
            \E dbid \in DbIds :
               \/ fwd[dbid] = "pending" /\ fwd'[dbid] \in {"ok", "failed"}
               \/ rbk[dbid] = "pending" /\ rbk'[dbid] \in {"ok", "failed"}
       /\ (Completed(rbk) /\ RollbackFailed # {}) =>
            disk' = disk /\ flatFile' = flatFile /\ fwd' = fwd /\ rbk' = rbk]_vars

C14_Witness ==
    Done /\ RollbackFailed # {} /\ error = "RollbackFailed"

\* C15: SIGINT is ignored from the first lifecycle command until execute
\* exits, and its handler is back in place whenever execute has exited.
C15_SigintSuppressedUntilExit ==
    /\ (pc \notin {"start", "done"}) => sigint = "ignored"
    /\ (lifecycle # <<>> /\ ~Done) => sigint = "ignored"
    /\ Done => sigint = "default"

C15_Witness ==
    Done /\ sigint = "default" /\ error = "ConnectivityFailed" /\ lifecycle # <<>>

\* C16: whenever the handler of SIGINT is back in place after a run started,
\* the cluster runs in normal mode.
C16_SigintRestoredInNormalMode ==
    (pc = "done" /\ sigint = "default") => clusterMode = "normal"

\* C17: when start_master_only fails, execute has issued start_database by
\* the time the error reaches the caller.
C17_MasterOnlyFailureRestarts ==
    (Done /\ error = "GpStartMasterOnlyFailed")
        => \E i \in 1..Len(lifecycle) : lifecycle[i] = "start_database"

\* The flat file an invocation is to leave on its segment: none when the
\* target is pg_system, else the oid of the target, the segment's dbid and
\* target directory and, when the segment has a peer, the peer's.
ExpectedFlatFile(dbid, name) ==
    LET oid == (CHOOSE f \in {Filespaces[i] : i \in 1..Len(Filespaces)} : f.name = name).oid
        peers == {sg \in Segs : sg.dbid # dbid /\
                     sg.content = (CHOOSE me \in Segs : me.dbid = dbid).content}
        line(d) == <<Str(d), FilespaceDirs[name][d]>>
    IN  IF name = "pg_system" THEN NoFile
        ELSE << <<Str(oid)>>, line(dbid) >>
             \o (IF peers = {} THEN <<>> ELSE << line((CHOOSE sg \in peers : TRUE).dbid) >>)

\* C18: at every statement of the flat-file step, also after a failure or a
\* crash, the flat file of the segment is the one it had before or the
\* complete one the invocation is to leave (none for pg_system), no other
\* flat file changes, and the step that completes leaves the new one.
C18_FlatFileNeverPartial ==
    LET dbid == FlatFileSeg.dbid
        new == ExpectedFlatFile(dbid, new_filespace_name)
    IN  /\ flatFile[dbid] \in {flatFile0[dbid], new}
        /\ \A d \in DbIds \ {dbid} : flatFile[d] = flatFile0[d]
        /\ pc = "ff_done" => flatFile[dbid] = new
        /\ pc \in {"ff_failed", "ff_crashed"} => flatFile[dbid] = flatFile0[dbid]

C18_Witness ==
    /\ pc = "ff_failed"
    /\ tmpFile[FlatFileSeg.dbid] # FlatFileLines
    /\ Len(tmpFile[FlatFileSeg.dbid]) = 1
    /\ flatFile0[FlatFileSeg.dbid] # NoFile

\* C19 (as stated): a flat file changes only in a step taken with the
\* cluster in master-only mode.
C19_MutationInMasterOnlyMode ==
    [][flatFile' # flatFile => clusterMode = "utility"]_vars

\* C19 (amended): a flat file changes only in a step taken with the whole
\* cluster stopped, after stop_master_only has shut the master-only instance
\* down and before start_database; never in normal or master-only mode.
C19_MutationWhileStopped ==
    [][flatFile' # flatFile =>
          /\ clusterMode = "stopped" /\ clusterMode' = "stopped"
          /\ Last(lifecycle) = "stop_master_only"]_vars

C19_Witness ==
    /\ flatFile # flatFile0
    /\ clusterMode = "stopped"
    /\ pc = "forward"
    /\ Last(lifecycle) = "stop_master_only"

\* C20: a forward invocation that succeeds leaves on its segment the flat
\* file of the target filespace (none for pg_system), and a rollback
\* invocation that succeeds that of the filespace in effect before the run.
C20_FlatFileLifecycle ==
    [][\A dbid \in DbIds :
          /\ (fwd[dbid] = "pending" /\ fwd'[dbid] = "ok")
                => flatFile'[dbid] = ExpectedFlatFile(dbid, new_filespace_name)
          /\ (rbk[dbid] = "pending" /\ rbk'[dbid] = "ok")
                => flatFile'[dbid] = ExpectedFlatFile(dbid, cur_filespace_name)]_vars

(***************************************************************************)
(* C21: a committed move from pg_system to fast_ssd leaves on segment 2    *)
(* (primary of content 0, mirror 3) a flat file of exactly three lines,    *)
(* the oid of fast_ssd, "2 /ssd/seg1" and "3 /ssd/seg1m", and none of the  *)
(* transaction directories under its pg_system directory.                  *)
(***************************************************************************)
C21_Scenario ==
    /\ Committed
    /\ \A dbid \in DbIds : flatFile0[dbid] = NoFile
    /\ new_filespace_name = "fast_ssd"

C21_PointerFileAndOldDirectory ==
    C21_Scenario =>
        /\ flatFile[2] = << <<"16385">>, <<"2", "/ssd/seg1">>, <<"3", "/ssd/seg1m">> >>
        /\ \A dir \in DirNames : ~disk["/data/seg1"].sub[dir].exists

\* The scenario with both transaction directories populated at the start.
C21_Witness ==
    /\ C21_Scenario
    /\ \A dir \in PopulatedDirs : disk0["/data/seg1"].sub[dir].exists
    /\ fwd[2] = "ok"
    /\ flatFile[2] = << <<"16385">>, <<"2", "/ssd/seg1">>, <<"3", "/ssd/seg1m">> >>

\* Every segment has no flat file, or every segment has one and all flat
\* files start with the same oid line.
SameOidEverywhere(ff) ==
    \/ \A dbid \in DbIds : ff[dbid] = NoFile
    \/ /\ \A dbid \in DbIds : ff[dbid] # NoFile
       /\ \A a \in DbIds, b \in DbIds : FlatFileLine(ff[a], 1) = FlatFileLine(ff[b], 1)

\* The run ended without a rollback failure: committed, or every rollback
\* operation succeeded.
RolledBack == Done /\ ForwardFailed # {} /\ \A dbid \in DbIds : rbk[dbid] = "ok"

\* C22: at the end of a run that committed or was rolled back with every
\* rollback operation succeeding, either no segment has a flat file or the
\* flat files of all segments name the same oid.
C22_PointerInvariantRestored ==
    (Committed \/ RolledBack) => SameOidEverywhere(flatFile)

\* The oid a segment reports in the first round of the check: -1 without a
\* flat file, else the integer of its first line; no report when the first
\* line is no integer.
OidReadFails(dbid) == flatFile[dbid] # NoFile /\ ~IsInt(ReadOid(flatFile[dbid]))
ReportedOids ==
    {IF flatFile[dbid] = NoFile THEN -1 ELSE ParseInt(ReadOid(flatFile[dbid])) :
        dbid \in {d \in DbIds : ~OidReadFails(d)}}

\* C23: CheckFilespaceConsistency returns False whenever the oid of some
\* segment's flat file cannot be read, the segments report more than one oid
\* (-1 standing for a missing flat file), or the one oid they report is not
\* the oid of a filespace of the catalog.
C23_BadOidsReturnFalse ==
    (pc = "returned" /\ ret.op = "CheckFilespaceConsistency")
        => ((\/ \E dbid \in DbIds : OidReadFails(dbid)
             \/ Cardinality(ReportedOids) > 1
             \/ \E oid \in ReportedOids : oid # -1 /\ oid \notin FilespaceOids)
               => (~ret.raised /\ ret.value = "False"))

\* The lines of a flat file after its oid line, as a set.
LinesAfterOid(file) == {file[k] : k \in 2..Len(file)}

\* C24: CheckFilespaceConsistency returns True only if, on every segment
\* that has a flat file, the set of the lines after the oid line is exactly
\* the segment's own entry and, when it has a peer, the peer's entry, in the
\* filespace the flat files name; one line more, one line less or one line
\* that differs makes it return False.
C24_EntryLinesExact ==
    (pc = "returned" /\ ret.op = "CheckFilespaceConsistency" /\ ~ret.raised /\ ret.value = "True")
        => \A dbid \in DbIds :
              flatFile[dbid] # NoFile
                 => LinesAfterOid(flatFile[dbid]) =
                      LinesAfterOid(ExpectedFlatFile(dbid,
                          getFileSpaceName(ParseInt(ReadOid(flatFile[1])))))


\* C24, as the code has it: the lines compared are those of exactly two
\* tokens. CheckFilespaceConsistency returns True only if on every segment
\* that has a flat file the set of its two-token lines is exactly the own
\* entry and, when the segment has a peer, the peer's entry.
C24_TwoTokenLinesExact ==
    (pc = "returned" /\ ret.op = "CheckFilespaceConsistency" /\ ~ret.raised /\ ret.value = "True")
        => \A dbid \in DbIds :
              flatFile[dbid] # NoFile
                 => {l \in LinesAfterOid(flatFile[dbid]) : Len(l) = 2} =
                      LinesAfterOid(ExpectedFlatFile(dbid,
                          getFileSpaceName(ParseInt(ReadOid(flatFile[1])))))

\* The check has returned True on a cluster whose segments all have a flat
\* file.
C24_Witness ==
    /\ pc = "returned" /\ ret.op = "CheckFilespaceConsistency"
    /\ ~ret.raised /\ ret.value = "True"
    /\ \A dbid \in DbIds : flatFile[dbid] # NoFile
    /\ Len(flatFile[2]) = 3


\* The entries of pg_filespace_entry for the filespace of the catalog with
\* the given oid: one (oid, dbid, directory) per segment, in catalog order.
EntriesOfOid(oid) ==
    [i \in 1..Len(DbList) |->
        <<oid, DbList[i].dbid,
          FilespaceDirs[(CHOOSE f \in {Filespaces[k] : k \in 1..Len(Filespaces)} :
                            f.oid = oid).name][DbList[i].dbid]>>]

C26_EntriesOfNamedFilespace ==
    (pc = "returned" /\ ret.op = "GetFilespaceEntries")
        => LET filespace_name == ret.args[1]
               named == {k \in 1..Len(Filespaces) : Filespaces[k].name = filespace_name}
           IN  /\ ret.raised <=> named = {}
               /\ ~ret.raised =>
                     /\ Len(ret.value) = Cardinality(DbIds)
                     /\ \A dbid \in DbIds :
                           Cardinality({i \in 1..Len(ret.value) : ret.value[i][2] = dbid}) = 1
                     /\ \A i \in 1..Len(ret.value) : \E k \in named :
                           /\ ret.value[i][1] = Filespaces[k].oid
                           /\ ret.value[i][3] = FilespaceDirs[filespace_name][ret.value[i][2]]

\* The entries of fast_ssd were returned.
C26_Witness ==
    /\ pc = "returned" /\ ret.op = "GetFilespaceEntries" /\ ~ret.raised
    /\ ret.args = <<"fast_ssd">>
    /\ ret.value[2] = <<16385, 2, "/ssd/seg1">>


\* C27: get_peer_filespace_entry returns the entry of a segment of the list
\* that has the given content id and another dbid, and None exactly when the
\* list has no such segment; it never returns the entry of the given dbid
\* nor that of a segment with another content id.
C27_PeerEntry ==
    (pc = "returned" /\ ret.op = "get_peer_filespace_entry")
        => LET filespace_entries == ret.args[1]
               dbid == ret.args[2]
               content_id == ret.args[3]
               segments == ret.args[4]
               peers == {i \in 1..Len(segments) :
                            segments[i].content = content_id /\ segments[i].dbid # dbid}
           IN  /\ ~ret.raised
               /\ ret.value = None <=> peers = {}
               /\ peers # {} => \E i \in peers : ret.value = filespace_entries[segments[i].dbid]
               /\ ret.value # filespace_entries[dbid]
               /\ \A i \in 1..Len(segments) :
                     segments[i].content # content_id
                        => ret.value # filespace_entries[segments[i].dbid]

\* The mirror's entry was returned for the primary.
C27_Witness ==
    /\ pc = "returned" /\ ret.op = "get_peer_filespace_entry"
    /\ ret.args[4] = DbList
    /\ ret.args[2] = 2 /\ ret.args[3] = 0
    /\ ret.value = <<16385, 3, "/ssd/seg1m">>


\* C28: in the forward batch and in the rollback batch an operation changes
\* state only by running, from pending to a result or an exception, and
\* alone: the failure of one segment's operation cancels or skips no other.
\* execute leaves a batch (to read its results) only when every operation of
\* the batch has completed.
C28_BatchRunsEveryOperation ==
    /\ [](/\ (pc # "forward" /\ \E dbid \in DbIds : fwd[dbid] # "none") => Completed(fwd)
          /\ (pc # "rollback" /\ RollbackStarted) => Completed(rbk))
    /\ [][\A dbid \in DbIds :
            /\ (fwd[dbid] # "none" /\ fwd'[dbid] # fwd[dbid])
                  => /\ fwd[dbid] = "pending" /\ fwd'[dbid] \in {"ok", "failed"}
                     /\ \A other \in DbIds \ {dbid} : fwd'[other] = fwd[other]
            /\ (rbk[dbid] # "none" /\ rbk'[dbid] # rbk[dbid])
                  => /\ rbk[dbid] = "pending" /\ rbk'[dbid] \in {"ok", "failed"}
                     /\ \A other \in DbIds \ {dbid} : rbk'[other] = rbk[other]]_vars

\* Both batches were left with one failed operation and two that succeeded.
C28_Witness ==
    /\ Done
    /\ Cardinality(ForwardFailed) = 1 /\ Cardinality(RollbackFailed) = 1
    /\ \A dbid \in DbIds : fwd[dbid] \in {"ok", "failed"} /\ rbk[dbid] \in {"ok", "failed"}


\* The order of the phases of one engine invocation from directory src to
\* directory dst, read off the step it takes. If the step removed anything
\* from src, every transaction directory that was at src is at dst with the
\* same files (it was copied and its checksum compared) or, when `retains`,
\* is at dst as it was there before (the rollback keeps what it finds). If
\* the step changed a flat file, no transaction directory is left at src.
PhasesInOrder(src, dst, retains) ==
    /\ (\E dir \in DirNames : disk'[src].sub[dir] # disk[src].sub[dir])
          => \A dir \in DirNames :
                disk[src].sub[dir].exists
                   => \/ disk'[dst].sub[dir] = Present(disk[src].sub[dir].files)
                      \/ /\ retains
                         /\ disk[dst].sub[dir].exists
                         /\ disk'[dst].sub[dir] = disk[dst].sub[dir]
    /\ flatFile' # flatFile => \A dir \in DirNames : ~disk'[src].sub[dir].exists

\* C29: in every engine invocation, forward or rollback, nothing is removed
\* from the old location until every transaction directory that exists
\* there has been copied to the target and has passed the checksum
\* comparison, and the flat file changes only after the removal is complete.
C29_CopyAllThenRemoveThenPointer ==
    [][\A dbid \in DbIds :
          /\ fwd'[dbid] # fwd[dbid] /\ fwd[dbid] = "pending"
                => PhasesInOrder(cur_filespace_entries[dbid][3],
                                 new_filespace_entries[dbid][3], FALSE)
          /\ rbk'[dbid] # rbk[dbid] /\ rbk[dbid] = "pending"
                => PhasesInOrder(new_filespace_entries[dbid][3],
                                 cur_filespace_entries[dbid][3], FALSE)]_vars

\* C29, as the code has it: a rollback invocation does not copy a
\* transaction directory whose target exists, and removes it from its
\* source all the same; every other directory is copied and compared before
\* anything is removed.
C29_CopyOrRetainThenRemoveThenPointer ==
    [][\A dbid \in DbIds :
          /\ fwd'[dbid] # fwd[dbid] /\ fwd[dbid] = "pending"
                => PhasesInOrder(cur_filespace_entries[dbid][3],
                                 new_filespace_entries[dbid][3], FALSE)
          /\ rbk'[dbid] # rbk[dbid] /\ rbk[dbid] = "pending"
                => PhasesInOrder(new_filespace_entries[dbid][3],
                                 cur_filespace_entries[dbid][3], TRUE)]_vars

\* A forward invocation has failed in its drop loop, with one transaction
\* directory already removed from the old location and every one of them
\* copied; and a rollback invocation has removed a directory it had to copy.
C29_Witness ==
    /\ pc = "rollback"
    /\ \E dbid \in DbIds :
          /\ fwd[dbid] = "failed"
          /\ disk0[cur_filespace_entries[dbid][3]].sub["pg_xlog"].exists
          /\ disk0[cur_filespace_entries[dbid][3]].sub["pg_clog"].exists
          /\ rbk[dbid] = "ok"
          /\ disk[cur_filespace_entries[dbid][3]] = disk0[cur_filespace_entries[dbid][3]]
          /\ \A dir \in DirNames : ~disk[new_filespace_entries[dbid][3]].sub[dir].exists


\* C30: an engine invocation, forward or rollback, whose current (source)
\* directory does not exist on the segment succeeds and changes nothing: no
\* directory and no flat file, whatever the permission probe, the free
\* space or the copy would have met.
C30_MissingSourceIsNoOp ==
    [][\A dbid \in DbIds :
          /\ (fwd[dbid] = "pending" /\ fwd'[dbid] # fwd[dbid]
                /\ ~disk[cur_filespace_entries[dbid][3]].exists)
                => (fwd'[dbid] = "ok" /\ disk' = disk /\ flatFile' = flatFile)
          /\ (rbk[dbid] = "pending" /\ rbk'[dbid] # rbk[dbid]
                /\ ~disk[new_filespace_entries[dbid][3]].exists)
                => (rbk'[dbid] = "ok" /\ disk' = disk /\ flatFile' = flatFile)]_vars

\* The forward invocation of the mirror, whose directory of the filespace in
\* effect is missing, has succeeded while the others are still to run.
C30_Witness ==
    /\ pc = "forward"
    /\ cur_filespace_entries[3][3] = "/ssd/seg1m"
    /\ ~disk0["/ssd/seg1m"].exists
    /\ fwd = <<"pending", "pending", "ok">>
    /\ Unmodified


\* The copy rule read off the step of one engine invocation from src to
\* dst. In rollback mode a transaction directory that exists at dst stays as
\* it is, whether the invocation succeeds or not. In an invocation that
\* succeeds (`ok`) a directory is at dst with the files it had at src when
\* it was at src and, in rollback mode, was not at dst; a directory that was
\* not at src stays at dst as it was.
CopyRule(src, dst, rollback, ok) ==
    \A dir \in DirNames :
        LET from == disk[src].sub[dir]
            to == disk[dst].sub[dir]
        IN  /\ (rollback /\ to.exists) => disk'[dst].sub[dir] = to
            /\ (ok /\ disk[src].exists) =>
                  /\ (from.exists /\ ~(rollback /\ to.exists))
                        => disk'[dst].sub[dir] = Present(from.files)
                  /\ ~from.exists => disk'[dst].sub[dir] = to

\* C31: in rollback mode the engine copies a transaction directory only when
\* it exists at the source and not at the destination, and never alters one
\* that exists at the destination; in forward mode it copies every one that
\* exists at the source, replacing what the destination had, so that the
\* destination holds the files of the source.
C31_CopyRule ==
    [][\A dbid \in DbIds :
          /\ (fwd[dbid] = "pending" /\ fwd'[dbid] # fwd[dbid])
                => CopyRule(cur_filespace_entries[dbid][3], new_filespace_entries[dbid][3],
                            FALSE, fwd'[dbid] = "ok")
          /\ (rbk[dbid] = "pending" /\ rbk'[dbid] # rbk[dbid])
                => CopyRule(new_filespace_entries[dbid][3], cur_filespace_entries[dbid][3],
                            TRUE, rbk'[dbid] = "ok")]_vars

\* A committed run has replaced a stale pg_clog at the destination of dbid 2
\* by the one of the source.
C31_Witness ==
    /\ Committed
    /\ LET from == disk0[cur_filespace_entries[2][3]].sub["pg_clog"]
           to == disk0[new_filespace_entries[2][3]].sub["pg_clog"]
       IN  /\ from.exists /\ to.exists /\ from.files # to.files
           /\ disk[new_filespace_entries[2][3]].sub["pg_clog"] = from


\* The invocations that meet a refused permission probe or a target mount
\* without a free block.
ProbeFaults == {fault \in Faults : fault.kind \in {"perm", "space"}}

\* C32: an engine invocation, forward or rollback, that finds its current
\* directory and then a refused permission probe or no free space at the
\* target raises and leaves every directory and every flat file as it was.
C32_ProbeFailureTouchesNothing ==
    \A i \in 1..Len(DbList), fault \in ProbeFaults :
        LET dbid == DbList[i].dbid
        IN  /\ (pc = "forward" /\ fwd[dbid] = "pending"
                  /\ CheckDir(disk, cur_filespace_entries[dbid][3]))
                  => LET r == ForwardOperation(DbList[i], fault)
                     IN  ~r.ok /\ r.disk = disk /\ r.file = flatFile
            /\ (pc = "rollback" /\ rbk[dbid] = "pending"
                  /\ CheckDir(disk, new_filespace_entries[dbid][3]))
                  => LET r == RollbackOperation(DbList[i], fault)
                     IN  ~r.ok /\ r.disk = disk /\ r.file = flatFile

\* The forward invocation of dbid 2, with transaction directories to move,
\* has failed first of all and nothing has changed.
C32_Witness ==
    /\ pc = "forward"
    /\ fwd = <<"pending", "failed", "pending">>
    /\ \A dir \in PopulatedDirs : disk0[cur_filespace_entries[2][3]].sub[dir].exists
    /\ Unmodified


\* The invocations in which copytree raises or copies short.
CopyFaults == {fault \in Faults : fault.kind \in {"copy", "corrupt"}}

\* C33: an engine invocation, forward or rollback, that fails in a copy or
\* in the comparison of the checksums after it leaves its current directory
\* (the old location) with every transaction directory as it was, and every
\* flat file as it was.
C33_CopyFailureKeepsOldLocation ==
    \A i \in 1..Len(DbList), fault \in CopyFaults :
        LET dbid == DbList[i].dbid
        IN  /\ (pc = "forward" /\ fwd[dbid] = "pending")
                  => LET r == ForwardOperation(DbList[i], fault)
                         src == cur_filespace_entries[dbid][3]
                     IN  ~r.ok => (r.disk[src] = disk[src] /\ r.file = flatFile)
            /\ (pc = "rollback" /\ rbk[dbid] = "pending")
                  => LET r == RollbackOperation(DbList[i], fault)
                         src == new_filespace_entries[dbid][3]
                     IN  ~r.ok => (r.disk[src] = disk[src] /\ r.file = flatFile)

\* The forward invocation of dbid 2 has failed after it copied to the
\* target: the old location and the flat files are as they were.
C33_Witness ==
    /\ pc = "forward"
    /\ fwd[2] = "failed"
    /\ \A dir \in PopulatedDirs : disk0[cur_filespace_entries[2][3]].sub[dir].exists
    /\ disk[cur_filespace_entries[2][3]] = disk0[cur_filespace_entries[2][3]]
    /\ disk[new_filespace_entries[2][3]].sub["pg_xlog"] = disk0[cur_filespace_entries[2][3]].sub["pg_xlog"]
    /\ disk[new_filespace_entries[2][3]].sub["pg_clog"] # disk0[cur_filespace_entries[2][3]].sub["pg_clog"]
    /\ flatFile[2] = flatFile0[2]


\* C34: an engine invocation, forward or rollback, exists only after
\* stop_master_only was issued on an instance seen in UTILITY mode and runs
\* with the whole cluster stopped, no instance having been started since; a
\* run that sees another mode raises 'Database state is invalid.' and
\* dispatches nothing.
C34_RelocationWhileStopped ==
    /\ [](/\ Dispatched =>
                /\ \E k \in 1..Len(lifecycle) :
                      /\ lifecycle[k] = "stop_master_only"
                      /\ \E j \in 1..(k - 1) : lifecycle[j] = "start_master_only"
                /\ error # "InvalidState"
          /\ error = "InvalidState" => (~Dispatched /\ Unmodified))
    /\ [][(fwd' # fwd \/ rbk' # rbk) =>
             /\ clusterMode = "stopped" /\ clusterMode' = "stopped"
             /\ Last(lifecycle) = "stop_master_only" /\ lifecycle' = lifecycle]_vars

\* A run has ended on 'Database state is invalid.' with nothing dispatched.
C34_Witness ==
    /\ Done /\ error = "InvalidState" /\ ~Dispatched
    /\ Last(lifecycle) = "start_master_only"

\* A flat file of segment `dbid` all of whose lines belong to filespace
\* `name`: its oid, the segment's directory in it and, if there is a third
\* line, the directory of another segment in it.
CoherentFor(file, dbid, name) ==
    LET oid == (CHOOSE f \in {Filespaces[i] : i \in 1..Len(Filespaces)} : f.name = name).oid
    IN  /\ file # NoFile
        /\ Len(file) \in {2, 3}
        /\ file[1] = <<Str(oid)>>
        /\ file[2] = <<Str(dbid), FilespaceDirs[name][dbid]>>
        /\ Len(file) = 3 =>
              \E other \in DbIds \ {dbid} : file[3] = <<Str(other), FilespaceDirs[name][other]>>

\* The filespace whose flat file a step that starts at `pc` writes: the
\* target in the forward batch, the one in use before the run in the
\* rollback batch and in UpdateFlatFiles.
WrittenFilespace ==
    IF pc = "forward" THEN new_filespace_name ELSE cur_filespace_name

\* C35: every flat file that a step of the relocation engine (forward or
\* rollback) or of UpdateFlatFilesLocally writes is coherent: the oid of
\* line 1, the own line and the peer line, when there is one, belong to one
\* filespace, the target in the forward direction and the filespace of the
\* entries read before the run otherwise.
C35_WrittenFlatFilesCoherent ==
    [][\A dbid \in DbIds :
          /\ (flatFile'[dbid] # flatFile[dbid] /\ flatFile'[dbid] # NoFile)
                => CoherentFor(flatFile'[dbid], dbid, WrittenFilespace)
          /\ (tempFlatFile'[dbid] # tempFlatFile[dbid] /\ tempFlatFile'[dbid] # NoFile)
                => CoherentFor(tempFlatFile'[dbid], dbid, WrittenFilespace)]_vars

\* C35 witness: in the rollback batch one segment's rollback has written a
\* three-line flat file while another segment still has the three-line flat
\* file that its forward operation wrote.
C35_Witness ==
    /\ pc = "rollback"
    /\ \E a \in DbIds, b \in DbIds :
          /\ rbk[a] = "ok" /\ flatFile[a] # flatFile0[a]
          /\ flatFile[a] # NoFile /\ Len(flatFile[a]) = 3
          /\ fwd[b] = "ok" /\ rbk[b] = "pending" /\ flatFile[b] # flatFile0[b]
          /\ flatFile[b] # NoFile /\ Len(flatFile[b]) = 3

\* The role UpdateFlatFiles was asked for.
UpdateRole == IF ret.args[1] THEN "p" ELSE "m"

\* C37: UpdateFlatFiles changes a flat file of a category only when the
\* control node (dbid 1) has a flat file of that category, and only on a
\* segment of the chosen role (primaries when primaries=True, else mirrors);
\* a batch is left only when every operation of it has completed, and the
\* run then raises exactly when one of them failed.
C37_UpdateOnlyChosenRole ==
    [][/\ \A dbid \in DbIds :
             /\ flatFile'[dbid] # flatFile[dbid]
                   => /\ flatFile[1] # NoFile
                      /\ \E seg \in Segs : seg.dbid = dbid /\ seg.role = UpdateRole
             /\ tempFlatFile'[dbid] # tempFlatFile[dbid]
                   => /\ tempFlatFile[1] # NoFile
                      /\ \E seg \in Segs : seg.dbid = dbid /\ seg.role = UpdateRole
       /\ (pc \in {"upd_trans_batch", "upd_temp_batch"} /\ pc' # pc)
             => /\ \A seg \in Segs : seg.role = UpdateRole => fwd[seg.dbid] \in {"ok", "failed"}
                /\ (\E dbid \in DbIds : fwd[dbid] = "failed")
                      <=> (pc' = "upd_failed" /\ error' = "UpdateFailed" /\ ret'.raised)]_vars

\* C37 witness: the run has raised after a batch in which one operation
\* failed and another one rewrote its flat file, while the flat file of a
\* segment of the other role is as it was.
C37_Witness ==
    /\ pc = "upd_failed"
    /\ error = "UpdateFailed"
    /\ \E a \in DbIds, b \in DbIds, c \in Segs :
          /\ fwd[a] = "failed"
          /\ fwd[b] = "ok" /\ flatFile[b] # flatFile0[b]
          /\ c.role # UpdateRole /\ flatFile[c.dbid] = flatFile0[c.dbid]

\* The current directory of the invocation for segment `dbid` in the batch
\* that runs: that of the filespace in use in the forward batch, that of
\* the target in the rollback batch.
TempOld(dbid) ==
    IF pc = "temp_forward" THEN cur_filespace_entries[dbid][3]
    ELSE new_filespace_entries[dbid][3]

\* The step is a successful invocation of MoveTempFilespaceLocally for
\* segment `dbid`.
TempSucceeds(dbid) ==
    \/ pc = "temp_forward" /\ fwd[dbid] = "pending" /\ fwd'[dbid] = "ok"
    \/ pc = "temp_rollback" /\ rbk[dbid] = "pending" /\ rbk'[dbid] = "ok"

\* C36: a successful invocation of MoveTempFilespaceLocally copies nothing
\* and changes no directory but the current one of its segment. There it
\* removes pgsql_tmp under every per-database directory of base when the
\* segment has no temporary flat file, and <current directory>/pgsql_tmp
\* otherwise; afterwards the current directory holds no pgsql_tmp.
C36_TempDirectoriesRemoved ==
    [][\A dbid \in DbIds :
          TempSucceeds(dbid) =>
             LET old == TempOld(dbid)
             IN  /\ disk' = disk
                 /\ \A p \in Paths \ {old} : tempDirs'[p] = tempDirs[p]
                 /\ tempDirs'[old] =
                       IF ~disk[old].exists THEN tempDirs[old]
                       ELSE IF tempFlatFile[dbid] = NoFile
                       THEN [tempDirs[old] EXCEPT !.tmp = {}]
                       ELSE [tempDirs[old] EXCEPT !.root = FALSE]
                 /\ ~tempDirs'[old].root
                 /\ tempDirs'[old].tmp = {}]_vars

\* C36 witness: moving away from pg_system, the forward operation of the
\* primary has succeeded and left no pgsql_tmp under base, while the mirror,
\* whose operation has not run yet, still holds one.
C36_Witness ==
    /\ pc = "temp_forward"
    /\ cur_filespace_name = PG_SYSTEM_FILESPACE
    /\ fwd[2] = "ok" /\ tempFlatFile[2] # NoFile
    /\ tempDirs[cur_filespace_entries[2][3]].tmp = {}
    /\ tempDirs[cur_filespace_entries[2][3]].dbs = TempDbOids
    /\ fwd[3] = "pending"
    /\ tempDirs[cur_filespace_entries[3][3]].tmp # {}

(***************************************************************************)
(* Properties of GpInjectFaultProgram.                                     *)
(***************************************************************************)
\* C38: with -o 0 the message that is built asks for start occurrence 1 and
\* end occurrence -1, with -o n for n > 0 for start and end occurrence n; a
\* negative value ends the program with an error before any message is
\* built. So a message has a start occurrence of at least 1 and an end
\* occurrence that is -1 or the start occurrence.
C38_OccurrencesOfMessage ==
    /\ inject.messageText # <<>> =>
          /\ inject.o >= 0
          /\ inject.o = 0 => /\ inject.messageText[7] = "1"
                             /\ inject.messageText[8] = "-1"
          /\ inject.o > 0 => /\ inject.messageText[7] = Str(inject.o)
                             /\ inject.messageText[8] = Str(inject.o)
          /\ \E start \in 1..MaxOccurrence :
                /\ inject.messageText[7] = Str(start)
                /\ inject.messageText[8] \in {Str(-1), Str(start)}
    /\ (pc # "inj_new" /\ inject.o < 0) =>
          /\ pc = "inj_failed"
          /\ error = "invalid value for -o option"
          /\ inject.messageText = <<>>

\* C38 witness: the message for -o 0 has gone to a segment.
C38_Witness ==
    /\ inject.o = 0
    /\ inject.messageText # <<>>
    /\ inject.messageText[8] = "-1"
    /\ \E dbid \in DbIds : inject.injected[dbid] > 0

\* The segments of a sequence that last answered 'Success: waitMore'.
RECURSIVE WaitingOf(_, _)
WaitingOf(segments, answer) ==
    IF segments = <<>> THEN <<>>
    ELSE (IF answer[Head(segments)] = "Success: waitMore" THEN <<Head(segments)>> ELSE <<>>)
         \o WaitingOf(Tail(segments), answer)

\* The step sends a status query to the segment at position inject.i.
StatusQuerySent ==
    /\ pc = "inj_wait"
    /\ inject.i <= Len(inject.segments)
    /\ inject'.i = inject.i + 1

\* C39: waitForFaults returns only when every target segment has answered
\* 'Success: done'; the segments of the next pass are those of this pass
\* that answered 'Success: waitMore', a segment that has answered
\* 'Success: done' is not asked again, and any other answer ends the wait
\* with an error. If on every target segment the fault occurs at some time,
\* so that the segment answers 'Success: done' from then on, the loop is
\* left.
C39_WaitUntilEveryoneIsDone ==
    /\ [][/\ (pc = "inj_wait" /\ pc' = "inj_done") =>
                \A j \in 1..Len(inject.targets) :
                   inject.answer[inject.targets[j]] = "Success: done"
          /\ (pc = "inj_wait" /\ inject.i > Len(inject.segments) /\ inject'.i # inject.i) =>
                inject'.segments = WaitingOf(inject.segments, inject.answer)
          /\ StatusQuerySent =>
                LET segment == inject.segments[inject.i]
                IN  /\ inject.answer[segment] # "Success: done"
                    /\ inject'.answer[segment] \notin {"Success: waitMore", "Success: done"}
                          => pc' = "inj_failed" /\ error' = "Unexpected result from server"
                    /\ inject'.answer[segment] \in {"Success: waitMore", "Success: done"}
                          => pc' = "inj_wait"]_vars
    /\ (<>[](\A j \in 1..Len(inject.targets) : inject.targets[j] \in inject.occurred))
          => (pc = "inj_wait" ~> pc \in {"inj_done", "inj_failed"})

\* C39 witness: the wait has returned after one segment answered
\* 'Success: done' to the first query and the other one was asked again.
C39_Witness ==
    /\ pc = "inj_done"
    /\ Len(inject.targets) = 2
    /\ \E a \in DbIds, b \in DbIds :
          /\ inject.polled[a] = 1 /\ inject.answer[a] = "Success: done"
          /\ inject.polled[b] >= 2 /\ inject.answer[b] = "Success: done"

\* C40: run sends the fault message to the target segments one after the
\* other, each at most once, and the first injection that fails ends the run
\* before any later segment is contacted. A status query is sent only when
\* every target has taken the fault message without error, the mode is sync
\* and the fault type is neither 'reset' nor 'status'; after the run has
\* ended nothing is sent.
C40_InjectThenMaybeWait ==
    /\ [](/\ \A dbid \in DbIds : inject.injected[dbid] <= 1
          /\ \A j \in 1..Len(inject.targets) :
                inject.injected[inject.targets[j]] = 1 =>
                   \A k \in 1..j : inject.injected[inject.targets[k]] = 1
          /\ (pc = "inj_failed" /\ error = "Injection Failed") =>
                \A j \in 1..Len(inject.targets) :
                   j >= inject.i => inject.injected[inject.targets[j]] = 0
          /\ (\E dbid \in DbIds : inject.polled[dbid] > 0) =>
                /\ inject.syncMode = "sync"
                /\ inject.type \notin {"reset", "status"}
                /\ error # "Injection Failed"
                /\ \A j \in 1..Len(inject.targets) :
                      inject.injected[inject.targets[j]] = 1)
    /\ [][/\ pc \notin {"inj_done", "inj_failed"}
          /\ inject'.injected # inject.injected =>
                /\ pc = "inj_inject"
                /\ inject'.injected =
                      [inject.injected EXCEPT ![inject.targets[inject.i]] = 1]
          /\ inject'.polled # inject.polled => pc = "inj_wait"]_vars

\* C40 witness: in sync mode the first of two targets has refused the fault
\* message; the run has ended, the second target was never contacted and
\* no status query was sent.
C40_Witness ==
    /\ pc = "inj_failed"
    /\ error = "Injection Failed"
    /\ inject.syncMode = "sync"
    /\ inject.type = "error"
    /\ Len(inject.targets) = 2
    /\ inject.i = 2
    /\ inject.injected[inject.targets[1]] = 1
    /\ inject.injected[inject.targets[2]] = 0
    /\ \A dbid \in DbIds : inject.polled[dbid] = 0

====
